---- MODULE Spec2Model ----
(***************************************************************************)
(* Model of bevy_granite's generic component reflection and serialization  *)
(* engine (crates/bevy_granite_core/src/entities/component_editor.rs), of  *)
(* its save pipeline (world/save.rs), of the selection observers and the   *)
(* duplication of the selection (bevy_granite_gizmos/src/selection), and   *)
(* of the camera update (camera_3d/update_event.rs).                       *)
(*                                                                         *)
(* Text is modelled as a sequence of lexemes: every punctuation character  *)
(* is one lexeme, and every maximal run of identifier or number characters *)
(* is one lexeme.  The string operations of the source (find, replace,     *)
(* split, trim, rfind) act on these sequences exactly as they act on the   *)
(* characters, because every pattern the source searches for starts and    *)
(* ends at a lexeme boundary.                                              *)
(***************************************************************************)
EXTENDS Integers, Sequences, FiniteSets, TLC

\* ------------------------------------------------------------------ bounds
\* The Health values other than the default that edits and hand-written
\* texts bring in: current = 50.0 * i for i in 1..MaxCurrent, max = 100.0.
MaxCurrent == 1
\* Largest number of entries of a hand-written component map given to
\* load_components_from_scene_data.
MaxEntries == 5

\* The number of RequestSaveEvents sent in a run.
MaxRequests == 3

\* ------------------------------------------------------------------ text
Q == "\""
BS == "\\"
WS == " "

\* The f32 values of the model: 0.0, 50.0, 100.0, ...
F32Values == {50 * i : i \in 0..(MaxCurrent + 1)}
FloatLit(n) == ToString(n) \o ".0"
NumberTokens == {FloatLit(n) : n \in F32Values}
BoolTokens == {"true", "false"}
PunctTokens == {"{", "}", "(", ")", "[", "]", ":", ",", Q, BS, WS}
IsIdent(t) == t \notin PunctTokens /\ t \notin NumberTokens /\ t \notin BoolTokens

\* The identifiers of the model in byte order (the order of Rust's str Ord).
SortedIdents ==
  << "Body", "Float", "Ghost", "Handle", "Health", "Hidden", "Marker", "Opaque", "Path",
     "Plain", "Raw", "Span", "Speed", "Tag", "bogus", "current", "level", "max", "points", "pos",
     "range", "x", "y" >>
IdentRank(t) ==
  IF \E i \in 1..Len(SortedIdents) : SortedIdents[i] = t
  THEN CHOOSE i \in 1..Len(SortedIdents) : SortedIdents[i] = t
  ELSE 0

DropFirst(s, n) == SubSeq(s, n + 1, Len(s))
Take(s, n) == SubSeq(s, 1, n)

\* str::find: the index of the first occurrence of pat in s, 0 when absent.
Find(s, pat) ==
  LET hits == {i \in 1..(Len(s) - Len(pat) + 1) : SubSeq(s, i, i + Len(pat) - 1) = pat}
  IN IF hits = {} THEN 0 ELSE CHOOSE i \in hits : \A j \in hits : i <= j

\* str::rfind: the index of the last occurrence of pat in s, 0 when absent.
RFind(s, pat) ==
  LET hits == {i \in 1..(Len(s) - Len(pat) + 1) : SubSeq(s, i, i + Len(pat) - 1) = pat}
  IN IF hits = {} THEN 0 ELSE CHOOSE i \in hits : \A j \in hits : i >= j

Contains(s, pat) == Find(s, pat) # 0

\* str::replace: every non-overlapping occurrence, left to right.
RECURSIVE Replace(_, _, _)
Replace(s, pat, rep) ==
  IF Len(s) < Len(pat) \/ Len(pat) = 0 THEN s
  ELSE IF Take(s, Len(pat)) = pat THEN rep \o Replace(DropFirst(s, Len(pat)), pat, rep)
  ELSE <<Head(s)>> \o Replace(Tail(s), pat, rep)

RECURSIVE TrimStart(_)
TrimStart(s) == IF s # <<>> /\ Head(s) = WS THEN TrimStart(Tail(s)) ELSE s

RECURSIVE TrimEnd(_)
TrimEnd(s) == IF s # <<>> /\ s[Len(s)] = WS THEN TrimEnd(Take(s, Len(s) - 1)) ELSE s

Trim(s) == TrimEnd(TrimStart(s))

\* str::split(c).next(): the text before the first c (all of s without one).
SplitFirst(s, c) == LET i == Find(s, <<c>>) IN IF i = 0 THEN s ELSE Take(s, i - 1)

RECURSIVE Join(_, _)
Join(parts, sep) ==
  IF parts = <<>> THEN <<>>
  ELSE IF Len(parts) = 1 THEN parts[1]
  ELSE parts[1] \o sep \o Join(Tail(parts), sep)

\* ------------------------------------------------------------------ ron::Value
\* A ron::Value is [tag, a]; a holds the lexemes of a leaf, the items of a
\* Seq, or the <<key, value>> pairs of a Map in key order.
RString(s) == [tag |-> "String", a |-> s]
RNumber(t) == [tag |-> "Number", a |-> <<t>>]
RBool(t) == [tag |-> "Bool", a |-> <<t>>]
RUnit == [tag |-> "Unit", a |-> <<>>]
RSeq(xs) == [tag |-> "Seq", a |-> xs]
RMap(ps) == [tag |-> "Map", a |-> ps]

POk(v, rest) == [ok |-> TRUE, v |-> v, rest |-> rest]
PFail == [ok |-> FALSE, v |-> <<>>, rest |-> <<>>]

\* Order of ron::Value (derived Ord: variant first, then content); the model
\* orders leaf keys only, which is all a struct or string-keyed map holds.
TagRank(tag) ==
  CASE tag = "Bool" -> 1 [] tag = "Map" -> 3 [] tag = "Number" -> 4
    [] tag = "String" -> 6 [] tag = "Seq" -> 7 [] OTHER -> 8

RECURSIVE LexLess(_, _)
LexLess(s, t) ==
  IF t = <<>> THEN FALSE
  ELSE IF s = <<>> THEN TRUE
  ELSE IF IdentRank(Head(s)) # IdentRank(Head(t)) THEN IdentRank(Head(s)) < IdentRank(Head(t))
  ELSE LexLess(Tail(s), Tail(t))

IsLeaf(k) == k.tag \in {"String", "Number", "Bool", "Unit"}
KeyEq(k1, k2) == k1.tag = k2.tag /\ IsLeaf(k1) /\ k1.a = k2.a
KeyLess(k1, k2) ==
  IF TagRank(k1.tag) # TagRank(k2.tag) THEN TagRank(k1.tag) < TagRank(k2.tag)
  ELSE IsLeaf(k1) /\ LexLess(k1.a, k2.a)

\* BTreeMap::insert on the sorted pair list: replace an equal key, else
\* insert before the first greater key.
RECURSIVE MapInsert(_, _, _)
MapInsert(ps, k, v) ==
  IF ps = <<>> THEN << <<k, v>> >>
  ELSE IF KeyEq(ps[1][1], k) THEN << <<k, v>> >> \o Tail(ps)
  ELSE IF KeyLess(k, ps[1][1]) THEN << <<k, v>> >> \o ps
  ELSE <<ps[1]>> \o MapInsert(Tail(ps), k, v)

\* The content of a quoted string, after its opening quote: up to the next
\* unescaped quote, a backslash escaping the lexeme after it.
RECURSIVE ScanStr(_, _)
ScanStr(ts, acc) ==
  IF ts = <<>> THEN PFail
  ELSE IF Head(ts) = Q THEN POk(acc, Tail(ts))
  ELSE IF Head(ts) = BS
       THEN IF Len(ts) >= 2 /\ ts[2] \in {Q, BS}
            THEN ScanStr(DropFirst(ts, 2), Append(acc, ts[2]))
            ELSE PFail
  ELSE ScanStr(Tail(ts), Append(acc, Head(ts)))

\* A parsing step's result wrapped as a ron::Value of the given kind.
Wrapped(r, tag) == IF r.ok THEN POk([tag |-> tag, a |-> r.v], r.rest) ELSE PFail

\* ron's Deserializer::deserialize_any, building a ron::Value.
RECURSIVE ParseAny(_), ParseItems(_, _, _), ParseFields(_, _), ParseEntries(_, _)
RECURSIVE ItemsNext(_, _, _), FieldsNext(_, _, _), EntryValue(_, _), EntriesNext(_, _, _)

HandleAnyStruct(ts) ==
  LET inner == TrimStart(Tail(ts))
      named == /\ Len(inner) >= 1 /\ IsIdent(inner[1])
               /\ LET after == TrimStart(Tail(inner)) IN after # <<>> /\ Head(after) = ":"
  IN IF named
     THEN Wrapped(ParseFields(inner, <<>>), "Map")
     ELSE Wrapped(ParseItems(inner, ")", <<>>), "Seq")

ParseAny(ts0) ==
  LET ts == TrimStart(ts0) IN
  IF ts = <<>> THEN PFail
  ELSE LET h == Head(ts) IN
    IF h = Q THEN Wrapped(ScanStr(Tail(ts), <<>>), "String")
    ELSE IF h \in NumberTokens THEN POk(RNumber(h), Tail(ts))
    ELSE IF h \in BoolTokens THEN POk(RBool(h), Tail(ts))
    ELSE IF h = "(" /\ Len(ts) >= 2 /\ ts[2] = ")" THEN POk(RUnit, DropFirst(ts, 2))
    ELSE IF h = "(" THEN HandleAnyStruct(ts)
    ELSE IF h = "[" THEN Wrapped(ParseItems(Tail(ts), "]", <<>>), "Seq")
    ELSE IF h = "{" THEN Wrapped(ParseEntries(Tail(ts), <<>>), "Map")
    ELSE IF IsIdent(h)
         THEN LET r == TrimStart(Tail(ts))
              IN IF r # <<>> /\ Head(r) = "(" THEN HandleAnyStruct(r) ELSE POk(RUnit, r)
    ELSE PFail

\* Comma-separated values up to the closing lexeme (trailing comma allowed).
ParseItems(ts0, close, acc) ==
  LET ts == TrimStart(ts0) IN
  IF ts = <<>> THEN PFail
  ELSE IF Head(ts) = close THEN POk(acc, Tail(ts))
  ELSE ItemsNext(ParseAny(ts), close, acc)

\* After the item r: a comma and the next items, or the closing lexeme.
ItemsNext(r, close, acc) ==
  IF ~r.ok THEN PFail
  ELSE LET ts2 == TrimStart(r.rest) IN
    IF ts2 = <<>> THEN PFail
    ELSE IF Head(ts2) = "," THEN ParseItems(Tail(ts2), close, Append(acc, r.v))
    ELSE IF Head(ts2) = close THEN POk(Append(acc, r.v), Tail(ts2))
    ELSE PFail

\* `ident: value` pairs up to `)`; the keys become ron::Value::String.
ParseFields(ts0, acc) ==
  LET ts == TrimStart(ts0) IN
  IF ts = <<>> THEN PFail
  ELSE IF Head(ts) = ")" THEN POk(acc, Tail(ts))
  ELSE IF ~IsIdent(Head(ts)) THEN PFail
  ELSE LET ts1 == TrimStart(Tail(ts)) IN
    IF ts1 = <<>> \/ Head(ts1) # ":" THEN PFail
    ELSE FieldsNext(ParseAny(Tail(ts1)), RString(<<Head(ts)>>), acc)

\* After the value r of the field k: a comma and the next fields, or `)`.
FieldsNext(r, k, acc) ==
  IF ~r.ok THEN PFail
  ELSE LET ts2 == TrimStart(r.rest)
           acc2 == MapInsert(acc, k, r.v) IN
    IF ts2 = <<>> THEN PFail
    ELSE IF Head(ts2) = "," THEN ParseFields(Tail(ts2), acc2)
    ELSE IF Head(ts2) = ")" THEN POk(acc2, Tail(ts2))
    ELSE PFail

\* `key: value` entries up to `}`.
ParseEntries(ts0, acc) ==
  LET ts == TrimStart(ts0) IN
  IF ts = <<>> THEN PFail
  ELSE IF Head(ts) = "}" THEN POk(acc, Tail(ts))
  ELSE EntryValue(ParseAny(ts), acc)

\* After the key k of an entry: `:` and its value.
EntryValue(k, acc) ==
  IF ~k.ok THEN PFail
  ELSE LET ts1 == TrimStart(k.rest) IN
    IF ts1 = <<>> \/ Head(ts1) # ":" THEN PFail
    ELSE EntriesNext(ParseAny(Tail(ts1)), k.v, acc)

\* After the value r of the entry keyed k: a comma and the next entries, or `}`.
EntriesNext(r, k, acc) ==
  IF ~r.ok THEN PFail
  ELSE LET ts2 == TrimStart(r.rest)
           acc2 == MapInsert(acc, k, r.v) IN
    IF ts2 = <<>> THEN PFail
    ELSE IF Head(ts2) = "," THEN ParseEntries(Tail(ts2), acc2)
    ELSE IF Head(ts2) = "}" THEN POk(acc2, Tail(ts2))
    ELSE PFail

\* The end of the text after the value read: only whitespace may be left.
AtEnd(r) == IF r.ok /\ TrimStart(r.rest) = <<>> THEN POk(r.v, <<>>) ELSE PFail

\* ron::from_str::<ron::Value>: one value, then only whitespace.
FromStrValue(ts) == AtEnd(ParseAny(ts))

\* HashMap<String, _>: every key read is a string.
StringKeyed(r) ==
  IF r.ok /\ \A i \in 1..Len(r.v) : r.v[i][1].tag = "String" THEN r ELSE PFail

\* ron::from_str::<HashMap<String, ron::Value>>: a `{...}` map whose keys
\* are strings, then only whitespace.
FromStrHashMap(ts0) ==
  LET ts == TrimStart(ts0) IN
  IF ts = <<>> \/ Head(ts) # "{" THEN PFail
  ELSE StringKeyed(AtEnd(ParseEntries(Tail(ts), <<>>)))

\* HashMap::get by string key on the parsed pairs: 0 when absent.
MapIndex(ps, name) ==
  LET hits == {i \in 1..Len(ps) : ps[i][1].tag = "String" /\ ps[i][1].a = <<name>>}
  IN IF hits = {} THEN 0 ELSE CHOOSE i \in hits : TRUE

\* ron's string escaping on output: `"` and `\` get a backslash.
RECURSIVE Escape(_)
Escape(s) ==
  IF s = <<>> THEN <<>>
  ELSE IF Head(s) \in {Q, BS} THEN <<BS, Head(s)>> \o Escape(Tail(s))
  ELSE <<Head(s)>> \o Escape(Tail(s))

\* ron::to_string(&ron::Value), compact form.
RECURSIVE ValueToString(_), ItemsToString(_), EntriesToString(_)
ValueToString(v) ==
  CASE v.tag = "String" -> <<Q>> \o Escape(v.a) \o <<Q>>
    [] v.tag = "Number" -> v.a
    [] v.tag = "Bool" -> v.a
    [] v.tag = "Unit" -> <<"(", ")">>
    [] v.tag = "Seq" -> <<"[">> \o ItemsToString(v.a) \o <<"]">>
    [] v.tag = "Map" -> <<"{">> \o EntriesToString(v.a) \o <<"}">>
ItemsToString(xs) ==
  IF xs = <<>> THEN <<>>
  ELSE IF Len(xs) = 1 THEN ValueToString(xs[1])
  ELSE ValueToString(xs[1]) \o <<",">> \o ItemsToString(Tail(xs))
EntriesToString(ps) ==
  IF ps = <<>> THEN <<>>
  ELSE LET one == ValueToString(ps[1][1]) \o <<":">> \o ValueToString(ps[1][2])
       IN IF Len(ps) = 1 THEN one ELSE one \o <<",">> \o EntriesToString(Tail(ps))

\* ------------------------------------------------------------------ types
\* The shape of a reflected type: an f32, a struct with named fields (a unit
\* struct is a struct without fields), or a tuple struct.
F32 == [kind |-> "f32", name |-> "f32", fields |-> <<>>]
StructShape(name, fields) == [kind |-> "struct", name |-> name, fields |-> fields]
TupleShape(name, fields) == [kind |-> "tuple", name |-> name, fields |-> fields]
Tuple2 == TupleShape("", <<F32, F32>>)
ListShape(elem) == [kind |-> "list", name |-> "Vec", fields |-> <<elem>>]

FieldNames(shape) == {shape.fields[i][1] : i \in 1..Len(shape.fields)}

\* A value of a struct shape is a function from field names to values, of a
\* tuple shape a sequence, of f32 a number.  A dynamic value read from text
\* may lack fields; Complete says it has them all.
RECURSIVE Complete(_, _)
Complete(shape, v) ==
  CASE shape.kind = "f32" -> TRUE
    [] shape.kind = "struct" ->
         /\ DOMAIN v = FieldNames(shape)
         /\ \A i \in 1..Len(shape.fields) :
              Complete(shape.fields[i][2], v[shape.fields[i][1]])
    [] shape.kind = "tuple" ->
         /\ Len(v) = Len(shape.fields)
         /\ \A i \in 1..Len(shape.fields) : Complete(shape.fields[i], v[i])
    [] shape.kind = "list" -> \A i \in 1..Len(v) : Complete(shape.fields[1], v[i])

\* bevy_reflect's TypedReflectSerializer written by ron::to_string (compact).
RECURSIVE SerValue(_, _), SerFields(_, _, _), SerItems(_, _, _), SerElems(_, _)
SerValue(shape, v) ==
  CASE shape.kind = "f32" -> <<FloatLit(v)>>
    [] shape.kind = "struct" -> <<"(">> \o SerFields(shape, v, 1) \o <<")">>
    [] shape.kind = "tuple" -> <<"(">> \o SerItems(shape, v, 1) \o <<")">>
    [] shape.kind = "list" -> <<"[">> \o SerElems(shape.fields[1], v) \o <<"]">>
SerElems(elem, v) ==
  IF v = <<>> THEN <<>>
  ELSE IF Len(v) = 1 THEN SerValue(elem, v[1])
  ELSE SerValue(elem, v[1]) \o <<",">> \o SerElems(elem, Tail(v))
SerFields(shape, v, i) ==
  IF i > Len(shape.fields) THEN <<>>
  ELSE <<shape.fields[i][1], ":">> \o SerValue(shape.fields[i][2], v[shape.fields[i][1]])
       \o (IF i = Len(shape.fields) THEN <<>> ELSE <<",">> \o SerFields(shape, v, i + 1))
SerItems(shape, v, i) ==
  IF i > Len(shape.fields) THEN <<>>
  ELSE SerValue(shape.fields[i], v[i])
       \o (IF i = Len(shape.fields) THEN <<>> ELSE <<",">> \o SerItems(shape, v, i + 1))

\* Mutant of ReflectSerializer: the value alone, without the map.
ReflectSerializerBare(name, shape, v) == SerValue(shape, v)

\* bevy::reflect::serde::ReflectSerializer: the value in a one-entry map
\* keyed by the type path.
ReflectSerializer(name, shape, v) == <<"{", Q, name, Q, ":">> \o SerValue(shape, v) \o <<"}">>

FieldIndex(shape, fname) ==
  IF \E i \in 1..Len(shape.fields) : shape.fields[i][1] = fname
  THEN CHOOSE i \in 1..Len(shape.fields) : shape.fields[i][1] = fname
  ELSE 0

ParseFloat(t) == CHOOSE n \in F32Values : FloatLit(n) = t

\* ron's Deserializer driven by the type's shape (deserialize_struct,
\* deserialize_tuple_struct, deserialize_f32).  strict is serde's derived
\* Deserialize (a missing field is an error); otherwise the reflection
\* visitor, which returns the fields it read.  Neither checks for the end of
\* the text.  A list is read by deserialize_seq, which wants `[`.
RECURSIVE DeValue(_, _, _), DeFields(_, _, _, _), DeItems(_, _, _, _), DeElems(_, _, _, _)
RECURSIVE DeFieldsNext(_, _, _, _, _), DeItemsNext(_, _, _, _), DeElemsNext(_, _, _, _)

\* The end of a struct: serde wants every field, the reflection visitor
\* takes the ones read.
AllFields(r, shape, strict) ==
  IF r.ok /\ (strict => DOMAIN r.v = FieldNames(shape)) THEN r ELSE PFail

\* The end of a tuple struct: every position has been read.
AllItems(r, shape) == IF r.ok /\ Len(r.v) = Len(shape.fields) THEN r ELSE PFail

\* ron's deserialize_unit_struct, which serde's derived Deserialize of a unit
\* struct calls: the struct's name, or `()`.
UnitStruct(shape, ts) ==
  IF Head(ts) = shape.name THEN POk(<<>>, Tail(ts))
  ELSE IF Len(ts) >= 2 /\ ts[1] = "(" /\ ts[2] = ")" THEN POk(<<>>, DropFirst(ts, 2))
  ELSE PFail

DeValue(shape, ts0, strict) ==
  LET ts == TrimStart(ts0) IN
  IF ts = <<>> THEN PFail
  ELSE IF shape.kind = "f32"
       THEN IF Head(ts) \in NumberTokens THEN POk(ParseFloat(Head(ts)), Tail(ts)) ELSE PFail
  ELSE IF shape.kind = "list"
       THEN IF Head(ts) = "[" THEN DeElems(shape.fields[1], Tail(ts), <<>>, strict) ELSE PFail
  ELSE IF strict /\ shape.kind = "struct" /\ shape.fields = <<>>
       THEN UnitStruct(shape, ts)
  ELSE LET named == IsIdent(Head(ts))
           body == IF named THEN TrimStart(Tail(ts)) ELSE ts IN
       IF named /\ Head(ts) # shape.name THEN PFail
       ELSE IF body = <<>> \/ Head(body) # "(" THEN PFail
       ELSE IF shape.kind = "struct"
            THEN AllFields(DeFields(shape, Tail(body), <<>>, strict), shape, strict)
       ELSE AllItems(DeItems(shape, Tail(body), <<>>, strict), shape)

DeFields(shape, ts0, acc, strict) ==
  LET ts == TrimStart(ts0) IN
  IF ts = <<>> THEN PFail
  ELSE IF Head(ts) = ")" THEN POk(acc, Tail(ts))
  ELSE IF FieldIndex(shape, Head(ts)) = 0 \/ Head(ts) \in DOMAIN acc THEN PFail
  ELSE LET ts1 == TrimStart(Tail(ts)) IN
    IF ts1 = <<>> \/ Head(ts1) # ":" THEN PFail
    ELSE DeFieldsNext(DeValue(shape.fields[FieldIndex(shape, Head(ts))][2], Tail(ts1), strict),
                      shape, Head(ts), acc, strict)

DeFieldsNext(r, shape, fname, acc, strict) ==
  IF ~r.ok THEN PFail
  ELSE LET ts2 == TrimStart(r.rest)
           acc2 == (fname :> r.v) @@ acc IN
    IF ts2 = <<>> THEN PFail
    ELSE IF Head(ts2) = "," THEN DeFields(shape, Tail(ts2), acc2, strict)
    ELSE IF Head(ts2) = ")" THEN POk(acc2, Tail(ts2))
    ELSE PFail

DeItems(shape, ts0, acc, strict) ==
  LET ts == TrimStart(ts0) IN
  IF ts = <<>> THEN PFail
  ELSE IF Head(ts) = ")" THEN POk(acc, Tail(ts))
  ELSE IF Len(acc) >= Len(shape.fields) THEN PFail
  ELSE DeItemsNext(DeValue(shape.fields[Len(acc) + 1], ts, strict), shape, acc, strict)

DeItemsNext(r, shape, acc, strict) ==
  IF ~r.ok THEN PFail
  ELSE LET ts2 == TrimStart(r.rest) IN
    IF ts2 = <<>> THEN PFail
    ELSE IF Head(ts2) = "," THEN DeItems(shape, Tail(ts2), Append(acc, r.v), strict)
    ELSE IF Head(ts2) = ")" THEN POk(Append(acc, r.v), Tail(ts2))
    ELSE PFail

DeElems(elem, ts0, acc, strict) ==
  LET ts == TrimStart(ts0) IN
  IF ts = <<>> THEN PFail
  ELSE IF Head(ts) = "]" THEN POk(acc, Tail(ts))
  ELSE DeElemsNext(DeValue(elem, ts, strict), elem, acc, strict)

DeElemsNext(r, elem, acc, strict) ==
  IF ~r.ok THEN PFail
  ELSE LET ts2 == TrimStart(r.rest) IN
    IF ts2 = <<>> THEN PFail
    ELSE IF Head(ts2) = "," THEN DeElems(elem, Tail(ts2), Append(acc, r.v), strict)
    ELSE IF Head(ts2) = "]" THEN POk(Append(acc, r.v), Tail(ts2))
    ELSE PFail

\* ------------------------------------------------------------------ extraction
Some(v) == [some |-> TRUE, v |-> v]
None == [some |-> FALSE, v |-> <<>>]

SearchPattern(component_name) == <<Q, component_name, Q, ":">>

try_extract_ron_component(component_name, serialized_data) ==
  LET start == Find(serialized_data, SearchPattern(component_name)) IN
  IF start = 0 THEN None
  ELSE LET remaining == DropFirst(serialized_data, start - 1 + Len(SearchPattern(component_name)))
           trimmed == TrimStart(remaining) IN
    IF trimmed # <<>> /\ Head(trimmed) = Q
    THEN LET after_quote == Tail(trimmed)
             quote_end == RFind(after_quote, <<Q>>) IN
         IF quote_end # 0
         THEN Some(Replace(Take(after_quote, quote_end - 1), <<BS, Q>>, <<Q>>))
         ELSE None
    ELSE None

\* The loop `while result.contains("Float(") { replace("Float(", "")
\* .replace(")", "") }`.
RECURSIVE StripFloat(_)
StripFloat(result) ==
  IF Contains(result, <<"Float", "(">>)
  THEN StripFloat(Replace(Replace(result, <<"Float", "(">>, <<>>), <<")">>, <<>>))
  ELSE result

BracketsToParens(result) ==
  IF result # <<>> /\ Head(result) = "[" /\ result[Len(result)] = "]"
  THEN <<"(">> \o SubSeq(result, 2, Len(result) - 1) \o <<")">>
  ELSE result

RECURSIVE convert_map_to_ron_struct(_), clean_ron_value(_), MapFieldTexts(_), MapOrText(_, _)
MapFieldTexts(ps) ==
  IF ps = <<>> THEN <<>>
  ELSE IF ps[1][1].tag = "String"
       THEN << ps[1][1].a \o <<":">> \o clean_ron_value(ValueToString(ps[1][2])) >>
            \o MapFieldTexts(Tail(ps))
       ELSE MapFieldTexts(Tail(ps))

convert_map_to_ron_struct(map) == <<"(">> \o Join(MapFieldTexts(map), <<",">>) \o <<")">>

\* The end of clean_ron_value: a text that parses as a map is rewritten as a
\* struct, any other is returned as it is.
MapOrText(parsed, result) ==
  IF parsed.ok /\ parsed.v.tag = "Map" THEN convert_map_to_ron_struct(parsed.v.a) ELSE result

clean_ron_value(ron_str) ==
  LET result == BracketsToParens(StripFloat(ron_str)) IN
  MapOrText(FromStrValue(result), result)

RECURSIVE SeqItemTexts(_)
SeqItemTexts(xs) ==
  IF xs = <<>> THEN <<>>
  ELSE <<clean_ron_value(ValueToString(xs[1]))>> \o SeqItemTexts(Tail(xs))

\* Mutant of convert_seq_to_tuple: the sequence keeps its brackets.
convert_seq_to_tuple_brackets(seq) == <<"[">> \o Join(SeqItemTexts(seq), <<",">>) \o <<"]">>

convert_seq_to_tuple(seq) == <<"(">> \o Join(SeqItemTexts(seq), <<",">>) \o <<")">>

\* The Unit branch: the text after `"<component_name>":` up to the next `}`.
UnitIdentifier(component_name, serialized_data) ==
  LET start == Find(serialized_data, SearchPattern(component_name)) IN
  IF start = 0 THEN None
  ELSE LET remaining == DropFirst(serialized_data, start - 1 + Len(SearchPattern(component_name)))
           identifier == Trim(SplitFirst(TrimStart(remaining), "}")) IN
    IF identifier # <<>> THEN Some(identifier) ELSE Some(<<"(", ")">>)

\* Mutant of FallbackExtract: a text that is no record is taken as the
\* component text itself.
FallbackExtractLenient(component_name, serialized_data) ==
  LET parsed == FromStrHashMap(serialized_data) IN
  IF ~parsed.ok THEN Some(serialized_data)
  ELSE LET i == MapIndex(parsed.v, component_name) IN
    IF i = 0 THEN None ELSE Some(ValueToString(parsed.v[i][2]))

\* `match component_value` of extract_component_data.
MatchValue(component_value, component_name, serialized_data) ==
  CASE component_value.tag = "String" -> Some(component_value.a)
    [] component_value.tag = "Unit" -> UnitIdentifier(component_name, serialized_data)
    [] component_value.tag = "Map" -> Some(convert_map_to_ron_struct(component_value.a))
    [] component_value.tag = "Seq" -> Some(convert_seq_to_tuple(component_value.a))
    [] OTHER -> Some(ValueToString(component_value))

\* `parsed.get(component_name)?` and the match on the value found.
GetValue(parsed, component_name, serialized_data) ==
  IF ~parsed.ok THEN None
  ELSE LET i == MapIndex(parsed.v, component_name) IN
    IF i = 0 THEN None ELSE MatchValue(parsed.v[i][2], component_name, serialized_data)

\* The structured-value fallback of extract_component_data.
FallbackExtract(component_name, serialized_data) ==
  GetValue(FromStrHashMap(serialized_data), component_name, serialized_data)

\* The result of extract_component_data, with the strategies it ran.
Extracted(text, tried) == [some |-> text.some, v |-> text.v, tried |-> tried]

\* Mutant of extract_component_data: the structured-value parse runs first.
extract_component_data_fallback_first(component_name, serialized_data) ==
  LET parsed == FallbackExtract(component_name, serialized_data) IN
  IF parsed.some THEN Extracted(parsed, <<"fallback">>)
  ELSE Extracted(try_extract_ron_component(component_name, serialized_data),
                 <<"fallback", "direct">>)

\* The direct extraction's text when it has one, else the fallback's.
DirectOrFallback(extracted, component_name, serialized_data) ==
  IF extracted.some THEN Extracted(extracted, <<"direct">>)
  ELSE Extracted(FallbackExtract(component_name, serialized_data), <<"direct", "fallback">>)

extract_component_data(component_name, serialized_data) ==
  DirectOrFallback(try_extract_ron_component(component_name, serialized_data),
                   component_name, serialized_data)

\* ------------------------------------------------------------------ registry
Vec2 == StructShape("Vec2", << <<"x", F32>>, <<"y", F32>> >>)

\* One TypeRegistration: the shape of the type and the type data registered
\* for it (BridgeTag, ExposedToEditor, ReflectComponent, ReflectDefault,
\* ReflectFromReflect, ReflectDeserialize).
Registration(shape, bridge, exposed, component, default, from_reflect, deserialize, default_value) ==
  [shape |-> shape, bridge |-> bridge, exposed |-> exposed, component |-> component,
   default |-> default, from_reflect |-> from_reflect, deserialize |-> deserialize,
   default_value |-> default_value]

Level == << <<"level", F32>> >>

\* The AppTypeRegistry, keyed by type path.  It is filled at start-up and
\* only read afterwards.
TypeRegistry ==
  ("Health" :> Registration(StructShape("Health", << <<"current", F32>>, <<"max", F32>> >>),
                            TRUE, FALSE, TRUE, TRUE, TRUE, TRUE, [current |-> 0, max |-> 0]))
  @@ ("Speed" :> Registration(TupleShape("Speed", <<F32, F32>>),
                              FALSE, TRUE, TRUE, FALSE, TRUE, FALSE, <<>>))
  @@ ("Marker" :> Registration(StructShape("Marker", <<>>),
                               TRUE, TRUE, TRUE, FALSE, TRUE, FALSE, <<>>))
  @@ ("Hidden" :> Registration(StructShape("Hidden", << <<"level", F32>> >>),
                               FALSE, FALSE, TRUE, TRUE, TRUE, FALSE, [level |-> 0]))
  @@ ("Body" :> Registration(StructShape("Body", << <<"pos", Vec2>> >>),
                             TRUE, FALSE, TRUE, FALSE, TRUE, FALSE, <<>>))
  @@ ("Path" :> Registration(StructShape("Path", << <<"points", ListShape(F32)>> >>),
                             TRUE, FALSE, TRUE, FALSE, TRUE, FALSE, <<>>))
  @@ ("Span" :> Registration(StructShape("Span", << <<"range", Tuple2>> >>),
                             TRUE, FALSE, TRUE, FALSE, TRUE, FALSE, <<>>))
  @@ ("Tag" :> Registration(StructShape("Tag", <<>>),
                            TRUE, FALSE, TRUE, FALSE, TRUE, TRUE, <<>>))
  @@ ("Plain" :> Registration(StructShape("Plain", Level),
                              TRUE, FALSE, TRUE, FALSE, FALSE, FALSE, <<>>))
  @@ ("Raw" :> Registration(StructShape("Raw", Level),
                            TRUE, FALSE, FALSE, TRUE, TRUE, FALSE, [level |-> 0]))
  @@ ("Opaque" :> Registration(StructShape("Opaque", Level),
                               TRUE, FALSE, TRUE, TRUE, TRUE, FALSE, [level |-> 0]))
  @@ ("Handle" :> Registration(StructShape("Handle", Level),
                               TRUE, FALSE, TRUE, TRUE, TRUE, FALSE, [level |-> 0]))

\* The types whose values reflect_clone cannot clone, and those the
\* ReflectSerializer cannot write.
NotClonable == {"Opaque"}
NotSerializable == {"Handle"}

Registered == DOMAIN TypeRegistry

is_bridge_component_check(registration) == registration.bridge
is_exposed_bevy_component(registration) == registration.exposed

\* Mutant of should_skip_component: `||` for `&&`.
should_skip_component_either(registration) ==
  ~is_bridge_component_check(registration) \/ ~is_exposed_bevy_component(registration)

should_skip_component(registration) ==
  ~is_bridge_component_check(registration) /\ ~is_exposed_bevy_component(registration)

\* ------------------------------------------------------------------ world
\* An entity's components: a function from the type paths it carries to
\* their values.
NoComponents == <<>>
Carries(comps, name) == name \in DOMAIN comps
Without(comps, name) == [n \in (DOMAIN comps) \ {name} |-> comps[n]]
With(comps, name, v) == (name :> v) @@ comps

\* Reflect::apply: the fields the new value has overwrite those of the old.
RECURSIVE ReflectApply(_, _, _)
ReflectApply(shape, old, new) ==
  CASE shape.kind = "f32" -> new
    [] shape.kind = "struct" ->
         [f \in DOMAIN old |->
            IF f \in DOMAIN new
            THEN ReflectApply(shape.fields[FieldIndex(shape, f)][2], old[f], new[f])
            ELSE old[f]]
    [] shape.kind = "tuple" ->
         [i \in DOMAIN old |->
            IF i \in DOMAIN new THEN ReflectApply(shape.fields[i], old[i], new[i]) ELSE old[i]]
    [] shape.kind = "list" -> new

\* ReflectComponent::insert builds the component with FromReflect, else
\* from Default with the value applied, else panics.
FromReflectWithFallback(registration, value) ==
  IF registration.from_reflect /\ Complete(registration.shape, value) THEN POk(value, <<>>)
  ELSE IF registration.default
       THEN POk(ReflectApply(registration.shape, registration.default_value, value), <<>>)
  ELSE PFail

\* The outcome of installing or restoring one component: the entity's
\* components afterwards, the result, the install path taken and the stages
\* that ran, in order.
Outcome(comps, status, path, stages) ==
  [comps |-> comps, status |-> status, path |-> path, stages |-> stages]

\* ReflectComponent::insert of the component built, or the panic when none
\* could be built.
Insert(comps, component_name, built, stages) ==
  IF built.ok
  THEN Outcome(With(comps, component_name, built.v), "Ok", "insert", Append(stages, "insert"))
  ELSE Outcome(comps, "Panic", "none", Append(stages, "insert"))

\* Mutant of ApplyOrInsert: the component is inserted whether or not the
\* entity carries one.
ApplyOrInsertAlwaysInsert(comps, component_name, component_data, registration, stages) ==
  Insert(comps, component_name, FromReflectWithFallback(registration, component_data), stages)

\* The branch `if entity_mut.contains_type_id(..) { apply } else { insert }`
\* of insert_reflected_component, add_component_by_name and
\* edit_component_by_name.
ApplyOrInsert(comps, component_name, component_data, registration, stages) ==
  IF Carries(comps, component_name)
  THEN Outcome(With(comps, component_name,
                    ReflectApply(registration.shape, comps[component_name], component_data)),
               "Ok", "apply", Append(stages, "apply"))
  ELSE Insert(comps, component_name, FromReflectWithFallback(registration, component_data),
              stages)

insert_reflected_component(comps, component_name, component_data, registration, stages) ==
  IF ~registration.component THEN Outcome(comps, "NoReflectComponent", "none", stages)
  ELSE ApplyOrInsert(comps, component_name, component_data, registration, stages)

\* ------------------------------------------------------------------ inputs
Entities == {"e1", "e2"}

\* A type path no registration exists for.
Unregistered == {"Ghost"}
TypeNames == Registered \cup Unregistered

HealthValues == {[current |-> 50 * i, max |-> 100] : i \in 1..MaxCurrent}

\* The values edits and hand-written texts use, per type.
SampleValues(name) ==
  CASE name = "Health" -> HealthValues
    [] name = "Speed" -> {<<50, 0>>}
    [] name \in {"Marker", "Tag"} -> {<<>>}
    [] name \in {"Hidden", "Plain", "Raw", "Opaque", "Handle"} -> {[level |-> 0]}
    [] name = "Body" -> {[pos |-> [x |-> 0, y |-> 50]]}
    [] name = "Path" -> {[points |-> <<0, 50>>]}
    [] name = "Span" -> {[range |-> <<0, 50>>]}
    [] OTHER -> {[current |-> 50, max |-> 100]}

SampleShape(name) ==
  IF name \in Registered THEN TypeRegistry[name].shape ELSE TypeRegistry["Health"].shape

\* The component text without the last field of a struct of several fields;
\* `()` for any other shape.
PartialBody(shape, v) ==
  IF shape.kind = "struct" /\ Len(shape.fields) >= 2
  THEN SerValue([shape EXCEPT !.fields = SubSeq(shape.fields, 1, Len(shape.fields) - 1)], v)
  ELSE <<"(", ")">>

\* Hand-written texts for one type name and value: the record the serializer
\* writes, the same with the component text quoted, the bare component text,
\* a record naming a field the type lacks, a record cut short, and a record
\* whose component text lacks a field.
FormNames == {"wrapped", "quoted", "bare", "badfield", "unclosed", "partial"}

\* For a unit struct also the record whose component text is the struct's
\* name, alone and with a further entry after it.
UnitForms == {"ident", "ident_more"}

\* For a type with a tuple or a list in it also the record that writes them
\* `[v0, v1]` and the record that writes them `(v0, v1)`.
SeqForms == {"brackets", "parens"}
SeqNames == {"Speed", "Span", "Path"}

Forms(name) ==
  IF name \in Registered /\ TypeRegistry[name].shape.fields = <<>>
  THEN FormNames \cup UnitForms
  ELSE IF name \in SeqNames THEN FormNames \cup SeqForms
  ELSE FormNames

\* The text of a value with its tuples and lists between the given brackets
\* and a space after each comma of theirs.
RECURSIVE SeqValue(_, _, _, _), SeqValueFields(_, _, _, _, _), SeqValueItems(_, _, _, _, _)
SeqValue(shape, v, open, close) ==
  CASE shape.kind = "f32" -> <<FloatLit(v)>>
    [] shape.kind = "struct" -> <<"(">> \o SeqValueFields(shape, v, 1, open, close) \o <<")">>
    [] OTHER -> <<open>> \o SeqValueItems(shape, v, 1, open, close) \o <<close>>
SeqValueFields(shape, v, i, open, close) ==
  IF i > Len(shape.fields) THEN <<>>
  ELSE <<shape.fields[i][1], ":">>
       \o SeqValue(shape.fields[i][2], v[shape.fields[i][1]], open, close)
       \o (IF i = Len(shape.fields) THEN <<>>
           ELSE <<",">> \o SeqValueFields(shape, v, i + 1, open, close))
SeqValueItems(shape, v, i, open, close) ==
  IF i > Len(v) THEN <<>>
  ELSE SeqValue(IF shape.kind = "list" THEN shape.fields[1] ELSE shape.fields[i], v[i],
                open, close)
       \o (IF i = Len(v) THEN <<>>
           ELSE <<",", WS>> \o SeqValueItems(shape, v, i + 1, open, close))

Text(name, v, form) ==
  LET body == SerValue(SampleShape(name), v) IN
  CASE form = "wrapped" -> <<"{", Q, name, Q, ":">> \o body \o <<"}">>
    [] form = "brackets" ->
         <<"{", Q, name, Q, ":">> \o SeqValue(SampleShape(name), v, "[", "]") \o <<"}">>
    [] form = "parens" ->
         <<"{", Q, name, Q, ":">> \o SeqValue(SampleShape(name), v, "(", ")") \o <<"}">>
    [] form = "ident" -> <<"{", Q, name, Q, ":", name, "}">>
    [] form = "ident_more" ->
         <<"{", Q, name, Q, ":", name, ",", Q, "Hidden", Q, ":", "(", "level", ":", "0.0", ")", "}">>
    [] form = "partial" ->
         <<"{", Q, name, Q, ":">> \o PartialBody(SampleShape(name), v) \o <<"}">>
    [] form = "quoted" -> <<"{", Q, name, Q, ":", Q>> \o Escape(body) \o <<Q, "}">>
    [] form = "bare" -> body
    [] form = "badfield" -> <<"{", Q, name, Q, ":", "(", "bogus", ":", "0.0", ")", "}">>
    [] form = "unclosed" -> <<"{", Q, name, Q, ":", "(">>

SingleMaps(names) ==
  {(n :> Text(n, v, form)) : <<n, v, form>> \in
     UNION {{n} \X SampleValues(n) \X Forms(n) : n \in names}}

FirstSample(name) == CHOOSE v \in SampleValues(name) : TRUE

Min(a, b) == IF a <= b THEN a ELSE b

\* The maps of several entries: every set of MaxEntries type names (of all
\* the names when they are fewer), each with the record the serializer
\* writes for it.
MultiMaps(names) ==
  {[n \in S |-> Text(n, FirstSample(n), "wrapped")] :
     S \in {T \in SUBSET names : Cardinality(T) = Min(MaxEntries, Cardinality(names))}}

\* The iteration orders of a HashMap with the given keys: every one.
RECURSIVE Orders(_)
Orders(S) ==
  IF S = {} THEN {<<>>}
  ELSE UNION {{<<n>> \o o : o \in Orders(S \ {n})} : n \in S}

\* Every value a component of the type can have in the model.
AllValues(name) ==
  SampleValues(name) \cup
    (IF name \in Registered /\ TypeRegistry[name].default
     THEN {TypeRegistry[name].default_value} ELSE {})

\* Every text a call is given: the hand-written ones and what the serializer
\* writes (the "wrapped" form).
KnownTexts ==
  {Text(n, v, form) : <<n, v, form>> \in
     UNION {{n} \X AllValues(n) \X Forms(n) : n \in TypeNames}}

\* extract_component_data and the deserializers are pure: their results on
\* the known texts are computed once.
ExtractMemo ==
  [n \in TypeNames |-> [t \in KnownTexts |-> extract_component_data(n, t)]]

CleanTexts == {ExtractMemo[n][t].v : <<n, t>> \in TypeNames \X KnownTexts}

DeserializeMemo ==
  [n \in Registered |-> [t \in CleanTexts |-> [strict \in BOOLEAN |->
     DeValue(TypeRegistry[n].shape, t, strict)]]]

\* ------------------------------------------------------------------ restore
\* `match deserialize(..) { Ok(data) => insert_reflected_component(..),
\* Err(e) => Err(..) }` of both deserialization strategies.
InsertDeserialized(comps, component_name, component_data, registration, stages) ==
  IF component_data.ok
  THEN insert_reflected_component(comps, component_name, component_data.v, registration, stages)
  ELSE Outcome(comps, "DeserializeFailed", "none", stages)

try_reflect_deserialize(comps, component_name, clean_ron, registration, stages) ==
  InsertDeserialized(comps, component_name, DeserializeMemo[component_name][clean_ron][TRUE],
                     registration, Append(stages, "reflect_deserialize"))

\* bevy's TypedReflectDeserializer: the type's ReflectDeserialize when one is
\* registered, the reflection visitor of the type's shape otherwise.
TypedReflectDeserializer(component_name, clean_ron, registration) ==
  DeserializeMemo[component_name][clean_ron][registration.deserialize]

try_typed_reflection_deserialize(comps, component_name, clean_ron, registration, stages) ==
  InsertDeserialized(comps, component_name,
                     TypedReflectDeserializer(component_name, clean_ron, registration),
                     registration, Append(stages, "typed_deserialize"))

\* Mutant of SecondStrategy: strategy 2 runs whatever strategy 1 did.
SecondStrategyAlways(first, comps, component_name, clean_ron, registration) ==
  IF first.status = "Panic" THEN first
  ELSE try_typed_reflection_deserialize(first.comps, component_name, clean_ron, registration,
                                        first.stages)

\* Strategy 2 of deserialize_and_insert_component, run when strategy 1 did
\* not install the component.
SecondStrategy(first, comps, component_name, clean_ron, registration) ==
  IF first.status \in {"Ok", "Panic"} THEN first
  ELSE try_typed_reflection_deserialize(comps, component_name, clean_ron, registration,
                                        first.stages)

deserialize_and_insert_component(comps, component_name, clean_ron, registration, stages) ==
  SecondStrategy(IF registration.deserialize
                 THEN try_reflect_deserialize(comps, component_name, clean_ron, registration,
                                              stages)
                 ELSE Outcome(comps, "Unsupported", "none", stages),
                 comps, component_name, clean_ron, registration)

\* process_single_component after extract_component_data: the extraction
\* error, or deserialization and insertion of the text extracted.
InsertExtracted(comps, component_name, clean_ron, stages) ==
  IF ~clean_ron.some THEN Outcome(comps, "ExtractFailed", "none", stages \o clean_ron.tried)
  ELSE deserialize_and_insert_component(comps, component_name, clean_ron.v,
                                        TypeRegistry[component_name],
                                        stages \o clean_ron.tried)

\* Mutant of process_single_component: the text is extracted before the
\* registration is looked up.
process_single_component_extract_first(comps, component_name, serialized_data) ==
  IF ~ExtractMemo[component_name][serialized_data].some
  THEN Outcome(comps, "ExtractFailed", "none", ExtractMemo[component_name][serialized_data].tried)
  ELSE IF component_name \notin Registered
  THEN Outcome(comps, "NoRegistration", "none",
               ExtractMemo[component_name][serialized_data].tried \o <<"resolve">>)
  ELSE InsertExtracted(comps, component_name, ExtractMemo[component_name][serialized_data],
                       <<"resolve">>)

\* Mutant of process_single_component: a type with neither tag is refused.
process_single_component_tagged_only(comps, component_name, serialized_data) ==
  IF component_name \notin Registered
  THEN Outcome(comps, "NoRegistration", "none", <<"resolve">>)
  ELSE IF should_skip_component(TypeRegistry[component_name])
  THEN Outcome(comps, "Skipped", "none", <<"resolve">>)
  ELSE InsertExtracted(comps, component_name, ExtractMemo[component_name][serialized_data],
                       <<"resolve">>)

process_single_component(comps, component_name, serialized_data) ==
  IF component_name \notin Registered
  THEN Outcome(comps, "NoRegistration", "none", <<"resolve">>)
  ELSE InsertExtracted(comps, component_name, ExtractMemo[component_name][serialized_data],
                       <<"resolve">>)

\* ------------------------------------------------------------------ operations
\* Mutant of Serializes: a component that does not serialize ends the
\* gather for every component.
SerializesAllOrNone(comps, m) ==
  /\ TypeRegistry[m].component
  /\ \A k \in DOMAIN comps : k \notin NotSerializable

\* `if let Some(reflect_component) .. if let Some(reflected_value) ..
\* if let Ok(serialized) = ron::to_string(..)` of the gather loop, for one
\* component of a registered type.
Serializes(comps, m) == TypeRegistry[m].component /\ m \notin NotSerializable

\* Mutant of serialize_entity_components: the exposure filter is left out.
serialize_entity_components_unfiltered(comps) ==
  [n \in {m \in DOMAIN comps : m \in Registered /\ Serializes(comps, m)}
     |-> ReflectSerializer(n, TypeRegistry[n].shape, comps[n])]

serialize_entity_components(comps) ==
  [n \in {m \in DOMAIN comps :
            /\ m \in Registered
            /\ ~should_skip_component(TypeRegistry[m])
            /\ Serializes(comps, m)}
     |-> ReflectSerializer(n, TypeRegistry[n].shape, comps[n])]

\* One element of the list get_reflected_components returns.
ReflectedComponent(type_name, reflected_data) ==
  [type_name |-> type_name, reflected_data |-> reflected_data]

\* `impl Clone for ReflectedComponent`: reflect_clone().expect(..), a panic
\* when the data cannot be cloned.
clone(component) ==
  [panicked |-> component.type_name \in NotClonable, v |-> component]

\* The types whose values reflect_partial_eq cannot compare (it returns
\* None).
NotComparable == {"Opaque"}

\* PartialReflect::reflect_partial_eq of two values of one type.
reflect_partial_eq(type_name, a, b) ==
  IF type_name \in NotComparable THEN None ELSE Some(a = b)

\* Mutant of eq: the type names are not compared.
eq_data_only(self, other) ==
  LET r == reflect_partial_eq(self.type_name, self.reflected_data, other.reflected_data) IN
  IF r.some THEN r.v ELSE FALSE

\* `impl PartialEq for ReflectedComponent`.
eq(self, other) ==
  IF self.type_name # other.type_name THEN FALSE
  ELSE LET r == reflect_partial_eq(self.type_name, self.reflected_data, other.reflected_data)
       IN IF r.some THEN r.v ELSE FALSE

get_reflected_components(comps, filter) ==
  [n \in {m \in DOMAIN comps :
            /\ m \in Registered
            /\ ~(filter /\ should_skip_component(TypeRegistry[m]))
            /\ TypeRegistry[m].component
            /\ m \notin NotClonable}
     |-> comps[n]]

\* The result of one call on an entity: its components afterwards and, per
\* type name handled, the status, the install path and the stages run.
Report(comps, res, success_count, error_count, panicked) ==
  [comps |-> comps, res |-> res, success_count |-> success_count,
   error_count |-> error_count, panicked |-> panicked]

Entry(o) == [status |-> o.status, path |-> o.path, stages |-> o.stages]

\* `match self.process_single_component(..)` of the loop: the report with
\* the entry's result counted.
Counted(acc, component_name, o) ==
  Report(IF o.status = "Ok" THEN o.comps ELSE acc.comps,
         (component_name :> Entry(o)) @@ acc.res,
         acc.success_count + (IF o.status = "Ok" THEN 1 ELSE 0),
         acc.error_count + (IF o.status \in {"Ok", "Panic"} THEN 0 ELSE 1),
         o.status = "Panic")

\* Mutant of LoadLoop: the loop ends at the first entry that fails.
RECURSIVE LoadLoopStopEarly(_, _, _, _)
LoadLoopStopEarly(comps, order, serialized_components, acc) ==
  IF order = <<>> \/ acc.error_count > 0 THEN acc
  ELSE LoadLoopStopEarly(comps, Tail(order), serialized_components,
                         Counted(acc, Head(order),
                                 process_single_component(acc.comps, Head(order),
                                                          serialized_components[Head(order)])))

\* The loop of load_components_from_scene_data over the map's entries in
\* the iteration order of the HashMap; a panic ends it.
RECURSIVE LoadLoop(_, _, _, _)
LoadLoop(comps, order, serialized_components, acc) ==
  IF order = <<>> \/ acc.panicked THEN acc
  ELSE LoadLoop(comps, Tail(order), serialized_components,
                Counted(acc, Head(order),
                        process_single_component(acc.comps, Head(order),
                                                 serialized_components[Head(order)])))

load_components_from_scene_data(comps, order, serialized_components) ==
  LoadLoop(comps, order, serialized_components, Report(comps, <<>>, 0, 0, FALSE))

\* DynamicStruct::default(), the empty blob add_component_by_name hands to
\* FromReflect.
EmptyDynamicStruct == <<>>

FromEmptyBlob(registration) ==
  IF registration.shape.kind = "struct" /\ Complete(registration.shape, EmptyDynamicStruct)
  THEN POk(EmptyDynamicStruct, <<>>)
  ELSE PFail

\* add_component_by_name after from_reflect: the component built is
\* installed, or construction has failed.
InstallBuilt(comps, component_type_name, component, registration) ==
  IF component.ok
  THEN ApplyOrInsert(comps, component_type_name, component.v, registration, <<"from_reflect">>)
  ELSE Outcome(comps, "ConstructionFailed", "none", <<"from_reflect">>)

\* Mutant of add_component_by_name: construction from the empty blob is
\* tried before the default constructor.
add_component_by_name_from_reflect_first(comps, component_type_name) ==
  IF component_type_name \notin Registered
  THEN Outcome(comps, "NoRegistration", "none", <<>>)
  ELSE LET registration == TypeRegistry[component_type_name] IN
    IF ~registration.component THEN Outcome(comps, "NoReflectComponent", "none", <<>>)
    ELSE IF registration.from_reflect
         THEN InstallBuilt(comps, component_type_name, FromEmptyBlob(registration),
                           registration)
    ELSE IF registration.default
         THEN ApplyOrInsert(comps, component_type_name, registration.default_value,
                            registration, <<"default">>)
    ELSE Outcome(comps, "ConstructionFailed", "none", <<>>)

add_component_by_name(comps, component_type_name) ==
  IF component_type_name \notin Registered
  THEN Outcome(comps, "NoRegistration", "none", <<>>)
  ELSE LET registration == TypeRegistry[component_type_name] IN
    IF ~registration.component THEN Outcome(comps, "NoReflectComponent", "none", <<>>)
    ELSE IF registration.default
         THEN ApplyOrInsert(comps, component_type_name, registration.default_value,
                            registration, <<"default">>)
    ELSE IF registration.from_reflect
         THEN InstallBuilt(comps, component_type_name, FromEmptyBlob(registration),
                           registration)
    ELSE Outcome(comps, "ConstructionFailed", "none", <<>>)

\* Mutant of remove_component_by_name: the entity's components are all
\* removed.
remove_component_by_name_clear(comps, component_type_name) ==
  IF component_type_name \notin Registered
  THEN Outcome(comps, "NoRegistration", "none", <<>>)
  ELSE IF ~TypeRegistry[component_type_name].component
       THEN Outcome(comps, "NoReflectComponent", "none", <<>>)
  ELSE Outcome(NoComponents, "Ok", "remove", <<"remove">>)

remove_component_by_name(comps, component_type_name) ==
  IF component_type_name \notin Registered
  THEN Outcome(comps, "NoRegistration", "none", <<>>)
  ELSE IF ~TypeRegistry[component_type_name].component
       THEN Outcome(comps, "NoReflectComponent", "none", <<>>)
  ELSE Outcome(Without(comps, component_type_name), "Ok", "remove", <<"remove">>)

edit_component_by_name(comps, component_type_name, reflected_data) ==
  IF component_type_name \notin Registered
  THEN Outcome(comps, "NoRegistration", "none", <<>>)
  ELSE LET registration == TypeRegistry[component_type_name] IN
    IF ~registration.component THEN Outcome(comps, "NoReflectComponent", "none", <<>>)
    ELSE ApplyOrInsert(comps, component_type_name, reflected_data, registration, <<>>)

\* ------------------------------------------------------------------ state
\* world: the components of every entity.  last: the last call made on the
\* editor, with what it was given and what it returned.  pending_saves: the
\* map of the resource SaveWorldRequestData.  messages: the messages written
\* and not yet read, per message type.  commands: the commands queued and
\* not yet applied.  frame: the systems that have run in the current frame.
VARIABLES world, last, pending_saves, messages, commands, frame
vars == <<world, last, pending_saves, messages, commands, frame>>
pipeline == <<pending_saves, messages, commands, frame>>

\* No message written, no RequestSaveEvent sent yet.
NoMessages ==
  [request |-> <<>>, collect |-> <<>>, ready |-> <<>>, success |-> <<>>, sent |-> 0]

\* SaveWorldRequestData::default(), empty message queues, no command queued,
\* a frame that starts.
InitPipeline ==
  /\ pending_saves = <<>>
  /\ messages = NoMessages
  /\ commands = <<>>
  /\ frame = {}

NoCall ==
  [op |-> "none", entity |-> "none", name |-> "none", input |-> <<>>, value |-> <<>>,
   before |-> <<>>, res |-> <<>>, out |-> <<>>, listed |-> <<>>, flag |-> FALSE,
   success_count |-> 0, error_count |-> 0, panicked |-> FALSE]

\* The type names the editor is driven with in Spec.
MainNames == {"Health", "Speed", "Marker", "Hidden", "Ghost"}

Init ==
  /\ world = [e \in Entities |-> NoComponents]
  /\ last = NoCall
  /\ InitPipeline

Gather(e) ==
  /\ last' = [NoCall EXCEPT !.op = "gather", !.entity = e, !.before = world[e],
                            !.out = serialize_entity_components(world[e])]
  /\ UNCHANGED world
  /\ UNCHANGED pipeline

ListComponents(e, filter) ==
  /\ last' = [NoCall EXCEPT !.op = "list", !.entity = e, !.before = world[e], !.flag = filter,
                            !.listed = get_reflected_components(world[e], filter)]
  /\ UNCHANGED world
  /\ UNCHANGED pipeline

ShouldSkip(name) ==
  /\ last' = [NoCall EXCEPT !.op = "should_skip", !.name = name,
                            !.flag = should_skip_component(TypeRegistry[name])]
  /\ UNCHANGED world
  /\ UNCHANGED pipeline

Single(op, e, name, o) ==
  /\ world' = [world EXCEPT ![e] = o.comps]
  /\ last' = [NoCall EXCEPT !.op = op, !.entity = e, !.name = name, !.before = world[e],
                            !.res = (name :> Entry(o)), !.panicked = (o.status = "Panic")]
  /\ UNCHANGED pipeline

Add(e, name) == Single("add", e, name, add_component_by_name(world[e], name))

Remove(e, name) == Single("remove", e, name, remove_component_by_name(world[e], name))

Edit(e, name, v) ==
  \E o \in {edit_component_by_name(world[e], name, v)} :
    /\ world' = [world EXCEPT ![e] = o.comps]
    /\ last' = [NoCall EXCEPT !.op = "edit", !.entity = e, !.name = name, !.value = v,
                              !.before = world[e], !.res = (name :> Entry(o)),
                              !.panicked = (o.status = "Panic")]
    /\ UNCHANGED pipeline

LoadMap(e, serialized_components, order, src) ==
  \E r \in {load_components_from_scene_data(world[e], order, serialized_components)} :
    /\ world' = [world EXCEPT ![e] = r.comps]
    /\ last' = [NoCall EXCEPT !.op = "load", !.entity = e, !.name = src,
                              !.input = serialized_components, !.before = world[e],
                              !.res = r.res, !.success_count = r.success_count,
                              !.error_count = r.error_count, !.panicked = r.panicked]
    /\ UNCHANGED pipeline

\* Load a hand-written map.
Load(e, names) ==
  \E m \in SingleMaps(names) \cup MultiMaps(names) : \E order \in Orders(DOMAIN m) :
    LoadMap(e, m, order, "written")

\* Load a hand-written map of one entry.
LoadOne(e, names) ==
  \E m \in SingleMaps(names) : \E order \in Orders(DOMAIN m) : LoadMap(e, m, order, "written")

\* Load the map the last call, a gather, returned.
LoadSaved(e) ==
  /\ last.op = "gather"
  /\ \E order \in Orders(DOMAIN last.out) : LoadMap(e, last.out, order, "saved")

\* The caller takes the result; the editor is ready for the next call.
Return ==
  /\ last.op # "none"
  /\ ~last.panicked
  /\ last' = NoCall
  /\ UNCHANGED world
  /\ UNCHANGED pipeline

Idle == last.op = "none"

Next ==
  \/ \E e \in Entities : Idle /\ Gather(e)
  \/ \E e \in Entities, filter \in BOOLEAN : Idle /\ ListComponents(e, filter)
  \/ \E name \in MainNames \cap Registered : Idle /\ ShouldSkip(name)
  \/ \E e \in Entities, name \in MainNames : Idle /\ Add(e, name)
  \/ \E e \in Entities, name \in MainNames : Idle /\ Remove(e, name)
  \/ \E e \in Entities, name \in MainNames : \E v \in SampleValues(name) :
       Idle /\ Edit(e, name, v)
  \/ \E e \in Entities : Idle /\ Load(e, MainNames)
  \/ \E e \in Entities : LoadSaved(e)
  \/ Return

Spec == Init /\ [][Next]_vars

\* Save and load: components of every shape are put on the entities, an
\* entity's components are gathered, and the map gathered is loaded.
ShapeNames == {"Health", "Speed", "Marker", "Body", "Path", "Span"}

NextSaveLoad ==
  \/ \E e \in Entities, name \in ShapeNames : \E v \in SampleValues(name) :
       Idle /\ Edit(e, name, v)
  \/ \E e \in Entities : Idle /\ Gather(e)
  \/ \E e \in Entities : Idle /\ LoadOne(e, ShapeNames)
  \/ \E e \in Entities : LoadSaved(e)
  \/ Return

SpecSaveLoad == Init /\ [][NextSaveLoad]_vars

\* Type data: the editor is driven with types that lack one or another of
\* the type data, on entities that carry components other code attached.
CapNames == {"Health", "Tag", "Plain", "Raw", "Opaque", "Handle", "Body", "Ghost"}

\* Components attached by other code: of a type without ReflectComponent, of
\* an unregistered type, of a type with neither FromReflect nor Default, and
\* of a type with neither tag.
Foreign ==
  [n \in {"Raw", "Ghost", "Plain", "Hidden"} |-> FirstSample(n)]

InitCaps ==
  /\ world = [e \in Entities |-> IF e = "e1" THEN Foreign ELSE NoComponents]
  /\ last = NoCall
  /\ InitPipeline

\* The hand-written maps of two entries, each entry the record the
\* serializer writes or the record that lacks a field.
PairNames == {"Health", "Body", "Tag"}
PairMaps ==
  UNION {{[n \in S |-> Text(n, FirstSample(n), form[n])] :
            form \in [S -> {"wrapped", "partial"}]} :
         S \in {T \in SUBSET PairNames : Cardinality(T) = 2}}

\* Load a hand-written map of two entries.
LoadPair(e) ==
  \E m \in PairMaps : \E order \in Orders(DOMAIN m) : LoadMap(e, m, order, "written")

\* A caller clones a ReflectedComponent it holds.
Clone(component) ==
  /\ last' = [NoCall EXCEPT !.op = "clone", !.name = component.type_name,
                            !.value = component.reflected_data,
                            !.panicked = clone(component).panicked]
  /\ UNCHANGED world
  /\ UNCHANGED pipeline

NextCaps ==
  \/ \E e \in Entities : Idle /\ Gather(e)
  \/ \E e \in Entities, filter \in BOOLEAN : Idle /\ ListComponents(e, filter)
  \/ \E name \in CapNames \cap Registered : \E v \in SampleValues(name) :
       Idle /\ Clone(ReflectedComponent(name, v))
  \/ \E e \in Entities, name \in CapNames : Idle /\ Add(e, name)
  \/ \E e \in Entities, name \in CapNames : Idle /\ Remove(e, name)
  \/ \E e \in Entities, name \in CapNames : \E v \in SampleValues(name) :
       Idle /\ Edit(e, name, v)
  \/ \E e \in Entities : Idle /\ LoadPair(e)
  \/ Return

SpecCaps == InitCaps /\ [][NextCaps]_vars

\* Values and texts: the comparison of ReflectedComponents and the text
\* functions of the restore, each applied to inputs of its own.
CompareNames == {"Health", "Plain", "Handle", "Opaque"}
Compared ==
  {ReflectedComponent(n, v) : <<n, v>> \in UNION {{n} \X AllValues(n) : n \in CompareNames}}

\* A caller compares two ReflectedComponents it holds.
Compare(self, other) ==
  /\ last' = [NoCall EXCEPT !.op = "eq", !.value = <<self, other>>, !.flag = eq(self, other)]
  /\ UNCHANGED world
  /\ UNCHANGED pipeline

\* The type names and the blobs the text functions are given: the blobs of
\* the restore for three types, and hand-written ones: two quoted entries,
\* a quoted text with escaped quotes in it, a unit entry with a space before
\* the colon, a map keyed by numbers, a number, and a sequence.
PureNames == {"Health", "Marker", "Hidden"}
HandBlobs ==
  { <<"{", Q, "Health", Q, ":", Q>> \o SerValue(SampleShape("Health"), FirstSample("Health"))
      \o <<Q, ",", Q, "Hidden", Q, ":", Q, "(", "level", ":", "0.0", ")", Q, "}">>,
    <<"{", Q, "Health", Q, ":", Q, "(", BS, Q, "x", BS, Q, ")", Q, "}">>,
    <<"{", Q, "Marker", Q, WS, ":", "(", ")", "}">>,
    <<"{", Q, "Health", Q, ":", "{", "0.0", ":", "50.0", ",", "50.0", ":", "0.0", "}", "}">>,
    <<"{", Q, "Health", Q, ":", "50.0", "}">>,
    <<"{", Q, "Health", Q, ":", "[", "0.0", ",", WS, "50.0", "]", "}">> }
PureBlobs ==
  {Text(n, FirstSample(n), form) : <<n, form>> \in PureNames \X FormNames} \cup HandBlobs

\* The value texts clean_ron_value is given: what ron::to_string writes for
\* the values of the model, and texts with the wrapper `Float(..)` in them.
CleanInputs ==
  {SerValue(SampleShape(n), FirstSample(n)) : n \in Registered} \cup
  { <<"Float", "(", "50.0", ")">>,
    <<"(", "x", ":", "Float", "(", "0.0", ")", ",", "y", ":", "50.0", ")">>,
    <<"(", "Float", "(", "0.0", ")", ",", "(", "50.0", ",", "0.0", ")", ")">>,
    <<"[", "Float", "(", "0.0", ")", ",", "50.0", "]">>,
    <<"[", "0.0", ",", "50.0", "]">>,
    <<"{", Q, "x", Q, ":", "0.0", ",", Q, "y", Q, ":", "50.0", "}">>,
    <<"{", "0.0", ":", "50.0", "}">>,
    <<"50.0">> }

\* try_extract_ron_component applied to a blob.
Direct(component_name, serialized_data) ==
  /\ last' = [NoCall EXCEPT !.op = "direct", !.name = component_name,
                            !.value = serialized_data,
                            !.out = try_extract_ron_component(component_name, serialized_data)]
  /\ UNCHANGED world
  /\ UNCHANGED pipeline

\* The structured-value fallback of extract_component_data applied to a blob.
Reconstruct(component_name, serialized_data) ==
  /\ last' = [NoCall EXCEPT !.op = "reconstruct", !.name = component_name,
                            !.value = serialized_data,
                            !.out = FallbackExtract(component_name, serialized_data)]
  /\ UNCHANGED world
  /\ UNCHANGED pipeline

\* clean_ron_value applied to a value text.
Clean(ron_str) ==
  /\ last' = [NoCall EXCEPT !.op = "clean", !.value = ron_str, !.out = clean_ron_value(ron_str)]
  /\ UNCHANGED world
  /\ UNCHANGED pipeline

NextPure ==
  \/ \E self \in Compared, other \in Compared : Idle /\ Compare(self, other)
  \/ \E n \in PureNames, t \in PureBlobs : Idle /\ Direct(n, t)
  \/ \E n \in PureNames, t \in PureBlobs : Idle /\ Reconstruct(n, t)
  \/ \E t \in CleanInputs : Idle /\ Clean(t)
  \/ Return

SpecPure == Init /\ [][NextPure]_vars

\* ------------------------------------------------------------------ save
\* The save pipeline of world/save.rs.  A RequestSaveEvent names the source
\* it saves (absolute_asset_to_rel of its path); `request` numbers the
\* requests in the order they are sent and tells the WorldStates apart.
\* Every message carries its age: the number of message updates it has
\* lived through.
Sources == {"scene_a", "scene_b"}
Systems == {"save_request_system", "collect_components_system", "save_data_ready_system"}

Message(source) == [source |-> source, age |-> 0]

\* The WorldState save_request_system builds: component_data None and
\* components_ready false.
WorldState(request) ==
  [request |-> request, component_data |-> "None", components_ready |-> FALSE]

\* An editor system sends a RequestSaveEvent for a source.
RequestSave(source) ==
  /\ messages.sent < MaxRequests
  /\ messages' = [messages EXCEPT
                    !.sent = @ + 1,
                    !.request = Append(@, [source |-> source, age |-> 0,
                                           request |-> messages.sent + 1])]
  /\ UNCHANGED <<world, last, pending_saves, commands, frame>>

\* A system runs once in a frame.
Runs(system) ==
  /\ system \notin frame
  /\ frame' = frame \cup {system}

\* save_request_system: the first unread RequestSaveEvent only; it writes
\* CollectRuntimeDataEvent and puts a fresh WorldState under the source.
save_request_system ==
  /\ Runs("save_request_system")
  /\ IF messages.request = <<>>
     THEN UNCHANGED <<pending_saves, messages>>
     ELSE /\ messages' = [messages EXCEPT
                            !.request = Tail(@),
                            !.collect = Append(@, Message(Head(messages.request).source))]
          /\ pending_saves' = With(pending_saves, Head(messages.request).source,
                                   WorldState(Head(messages.request).request))
  /\ UNCHANGED <<world, last, commands>>

\* collect_components_system: one queued closure per CollectRuntimeDataEvent.
collect_components_system ==
  /\ Runs("collect_components_system")
  /\ commands' = commands \o [i \in 1..Len(messages.collect) |->
                                [source |-> messages.collect[i].source]]
  /\ messages' = [messages EXCEPT !.collect = <<>>]
  /\ UNCHANGED <<world, last, pending_saves>>

\* The queued closures, run in order: each fills the WorldState under its
\* source, if there is one, and then writes RuntimeDataReadyEvent.
RECURSIVE apply_commands(_, _, _)
apply_commands(queue, pending, ready) ==
  IF queue = <<>> THEN [pending_saves |-> pending, ready |-> ready]
  ELSE IF Head(queue).source \in DOMAIN pending
  THEN apply_commands(Tail(queue),
                      [pending EXCEPT ![Head(queue).source].component_data = "Some",
                                      ![Head(queue).source].components_ready = TRUE],
                      Append(ready, Message(Head(queue).source)))
  ELSE apply_commands(Tail(queue), pending, ready)

\* The check save_data_ready_system makes before it serializes.
SerializableAlways(world_state) == TRUE
Serializable(world_state) == world_state.components_ready

\* save_data_ready_system's loop over the RuntimeDataReadyEvents: the entry
\* under the source is removed; it is serialized and WorldSaveSuccessEvent
\* written when its components are ready.  `at` is the number of requests
\* sent so far.
RECURSIVE save_data_ready(_, _, _, _)
save_data_ready(events, pending, success, at) ==
  IF events = <<>> THEN [pending_saves |-> pending, success |-> success]
  ELSE IF Head(events).source \notin DOMAIN pending
  THEN save_data_ready(Tail(events), pending, success, at)
  ELSE IF ~Serializable(pending[Head(events).source])
  THEN save_data_ready(Tail(events), Without(pending, Head(events).source), success, at)
  ELSE save_data_ready(Tail(events), Without(pending, Head(events).source),
                       Append(success, [source |-> Head(events).source,
                                        world_state |-> pending[Head(events).source],
                                        at |-> at]),
                       at)

save_data_ready_system ==
  /\ Runs("save_data_ready_system")
  /\ \E o \in {save_data_ready(messages.ready, pending_saves, messages.success,
                               messages.sent)} :
       /\ pending_saves' = o.pending_saves
       /\ messages' = [messages EXCEPT !.ready = <<>>, !.success = o.success]
  /\ UNCHANGED <<world, last, commands>>

\* A sync point between two systems of the frame: the queued commands run.
ApplyCommands ==
  /\ commands # <<>>
  /\ \E o \in {apply_commands(commands, pending_saves, messages.ready)} :
       /\ pending_saves' = o.pending_saves
       /\ messages' = [messages EXCEPT !.ready = o.ready]
  /\ commands' = <<>>
  /\ UNCHANGED <<world, last, frame>>

\* The message update between two frames: a message that has lived through
\* one update is dropped, the others grow older.
Fresh(message) == message.age = 0
message_update(queue) ==
  [i \in 1..Len(SelectSeq(queue, Fresh)) |->
     [SelectSeq(queue, Fresh)[i] EXCEPT !.age = 1]]

\* The frame ends when every system has run: the commands still queued run,
\* the messages are updated, and the next frame starts.
EndFrame ==
  /\ frame = Systems
  /\ \E o \in {apply_commands(commands, pending_saves, messages.ready)} :
       /\ pending_saves' = o.pending_saves
       /\ messages' = [messages EXCEPT !.request = message_update(@),
                                       !.collect = message_update(@),
                                       !.ready = message_update(o.ready)]
  /\ commands' = <<>>
  /\ frame' = {}
  /\ UNCHANGED <<world, last>>

NextSave ==
  \/ \E source \in Sources : RequestSave(source)
  \/ save_request_system
  \/ collect_components_system
  \/ save_data_ready_system
  \/ ApplyCommands
  \/ EndFrame

SpecSave == Init /\ [][NextSave]_vars

\* Every system runs in every frame, and every frame ends.
SpecSaveFair ==
  /\ SpecSave
  /\ WF_vars(save_request_system)
  /\ WF_vars(collect_components_system)
  /\ WF_vars(save_data_ready_system)
  /\ WF_vars(EndFrame)

\* ------------------------------------------------------------------ selection
\* The selection observers of selection/manager.rs.  The entities of the
\* scene in the order queries visit them; Selected and ActiveSelection are
\* marker components, and ActiveSelection requires Selected.
SceneOrder == <<"e1", "e2", "e3">>
SceneEntities == {SceneOrder[i] : i \in 1..Len(SceneOrder)}
Marker == <<>>

\* Query<Entity, With<component>>, in query order.
QueryWith(w, component) ==
  LET Test(e) == Carries(w[e], component) IN SelectSeq(SceneOrder, Test)

\* The ranges of the events: the sequences of distinct entities.
Ranges ==
  {r \in UNION {[1..n -> SceneEntities] : n \in 0..Len(SceneOrder)} :
     \A i \in DOMAIN r, j \in DOMAIN r : i # j => r[i] # r[j]}

EntityEvent(kind, target, range, additive) ==
  [kind |-> kind, target |-> target, range |-> range, additive |-> additive]
EntityEvents ==
  {EntityEvent("Select", e, <<>>, a) : <<e, a>> \in SceneEntities \X BOOLEAN} \cup
  {EntityEvent("SelectRange", "none", r, a) : <<r, a>> \in Ranges \X BOOLEAN} \cup
  {EntityEvent("Deselect", e, <<>>, FALSE) : e \in SceneEntities} \cup
  {EntityEvent("DeselectRange", "none", r, FALSE) : r \in Ranges} \cup
  {EntityEvent("DeselectAll", "none", <<>>, FALSE)}

\* commands.entity(e).insert(component) and .remove::<components>().
InsertCommand(e, component) == [op |-> "insert", entity |-> e, components |-> {component}]
RemoveCommand(e, components) == [op |-> "remove", entity |-> e, components |-> components]
RemoveEach(entities, components) ==
  [i \in 1..Len(entities) |-> RemoveCommand(entities[i], components)]
InsertEach(entities, component) ==
  [i \in 1..Len(entities) |-> InsertCommand(entities[i], component)]

\* select_entity, for the first entity of the event and the others of a
\* range: the commands it queues.
select_first(w, first, add, ranged, others) ==
  (IF add THEN <<>> ELSE RemoveEach(QueryWith(w, "Selected"), {"Selected"}))
  \o (IF Carries(w[first], "ActiveSelection")
      THEN <<RemoveCommand(first, {"ActiveSelection", "Selected"})>>
           \o (IF ranged THEN InsertEach(others, "Selected") ELSE <<>>)
      ELSE <<InsertCommand(first, "ActiveSelection")>>
           \o (IF ranged THEN InsertEach(others, "Selected") ELSE <<>>))

select_entity(w, event) ==
  CASE event.kind = "Select" -> select_first(w, event.target, event.additive, FALSE, <<>>)
    [] event.kind = "SelectRange" ->
         IF event.range = <<>> THEN <<>>
         ELSE select_first(w, Head(event.range), event.additive, TRUE, Tail(event.range))
    [] OTHER -> <<>>

\* deselect_entity: the commands it queues.
deselect_entity(w, event) ==
  CASE event.kind = "Deselect" ->
         <<RemoveCommand(event.target, {"ActiveSelection", "Selected"})>>
    [] event.kind = "DeselectRange" ->
         RemoveEach(event.range, {"ActiveSelection", "Selected"})
    [] event.kind = "DeselectAll" ->
         RemoveEach(QueryWith(w, "Selected"), {"ActiveSelection", "Selected"})
    [] OTHER -> <<>>

\* single_active, run when ActiveSelection was added to `entity`, with the
\* removals it queues applied: unless exactly one entity carries
\* ActiveSelection, every other entity loses it.
single_active_keeps_others(w, entity) == w
single_active(w, entity) ==
  IF Len(QueryWith(w, "ActiveSelection")) # 1
  THEN [e \in DOMAIN w |-> IF e # entity THEN Without(w[e], "ActiveSelection") ELSE w[e]]
  ELSE w

\* One queued command applied to the world; the values of the components
\* inserted are left out.  Inserting ActiveSelection on an entity that lacks
\* it inserts the Selected it requires and runs the observers of
\* On<Add, ActiveSelection>.
apply_command(w, command) ==
  IF command.op = "remove"
  THEN [w EXCEPT ![command.entity] =
          [n \in (DOMAIN @) \ command.components |-> @[n]]]
  ELSE IF "ActiveSelection" \notin command.components
  THEN [w EXCEPT ![command.entity] =
          [n \in (DOMAIN @) \cup command.components |->
             IF n \in command.components THEN Marker ELSE @[n]]]
  ELSE IF Carries(w[command.entity], "ActiveSelection") THEN w
  ELSE single_active(
         [w EXCEPT ![command.entity] =
            With(With(@, "Selected", Marker), "ActiveSelection", Marker)],
         command.entity)

RECURSIVE flush(_, _)
flush(w, queue) ==
  IF queue = <<>> THEN w ELSE flush(apply_command(w, Head(queue)), Tail(queue))

\* An EntityEvents event is triggered: the observers run and their queued
\* commands are applied.
Trigger(event) ==
  /\ world' = flush(world, select_entity(world, event) \o deselect_entity(world, event))
  /\ last' = [NoCall EXCEPT !.op = "trigger", !.name = event.kind, !.value = event,
                            !.before = world]
  /\ UNCHANGED pipeline

InitSelection ==
  /\ world = [e \in SceneEntities |-> NoComponents]
  /\ last = NoCall
  /\ InitPipeline

NextSelection == \E event \in EntityEvents : Trigger(event)

SpecSelection == InitSelection /\ [][NextSelection]_vars

\* ------------------------------------------------------------------ camera
\* update_camera_3d_system of camera_3d/update_event.rs.  The data of a
\* UserUpdatedCamera3DEvent: the flags of Camera3D; the settings values are
\* left out.
Camera3D(is_active, dither, has_bloom, has_volumetric_fog, has_atmosphere) ==
  [is_active |-> is_active, order |-> 0, dither |-> dither, has_bloom |-> has_bloom,
   has_volumetric_fog |-> has_volumetric_fog, has_atmosphere |-> has_atmosphere]
Camera3Ds ==
  {Camera3D(TRUE, f[1], f[2], f[3], f[4]) : f \in [1..4 -> BOOLEAN]}
UserUpdatedCamera3DEvent(entity, data) == [entity |-> entity, data |-> data]

\* The unread events of one run of the system: one event, for a camera or
\* for an entity that is none, or two events for one camera.
CameraBatches ==
  {<<UserUpdatedCamera3DEvent(e, d)>> : <<e, d>> \in {"e1", "e2"} \X Camera3Ds} \cup
  {<<UserUpdatedCamera3DEvent("e1", a), UserUpdatedCamera3DEvent("e1", b)>> :
     <<a, b>> \in Camera3Ds \X Camera3Ds}

InsertBundle(e, components) == [op |-> "insert", entity |-> e, components |-> components]

\* The commands the system queues for one event on a camera entity.
camera_commands(entity, new) ==
  <<IF new.dither THEN InsertBundle(entity, {"DebandDither"})
    ELSE RemoveCommand(entity, {"DebandDither"})>>
  \o (IF new.has_bloom
      THEN <<InsertBundle(entity, {"Hdr"}), InsertBundle(entity, {"Bloom"})>>
      ELSE <<RemoveCommand(entity, {"Bloom"})>>)
  \o <<IF new.has_volumetric_fog
       THEN InsertBundle(entity, {"VolumetricFog", "FogVolume"})
       ELSE RemoveCommand(entity, {"VolumetricFog", "FogVolume"})>>
  \o (IF new.has_atmosphere
      THEN <<InsertBundle(entity, {"Hdr"}), InsertBundle(entity, {"Atmosphere"}),
             InsertBundle(entity, {"AtmosphereSettings"})>>
      ELSE <<RemoveCommand(entity, {"Atmosphere", "AtmosphereSettings", "Hdr"})>>)

\* The body of the loop for one event: Camera and IdentityData are written
\* at once, the commands are queued; an entity the query lacks is logged.
RECURSIVE update_camera_3d(_, _, _)
update_camera_3d(w, queue, events) ==
  IF events = <<>> THEN [world |-> w, commands |-> queue]
  ELSE IF ~(Carries(w[Head(events).entity], "Camera")
            /\ Carries(w[Head(events).entity], "IdentityData"))
  THEN update_camera_3d(w, queue, Tail(events))
  ELSE update_camera_3d(
         [w EXCEPT ![Head(events).entity] =
            With(With(@, "Camera", [is_active |-> Head(events).data.is_active,
                                    order |-> Head(events).data.order]),
                 "IdentityData", Head(events).data)],
         queue \o camera_commands(Head(events).entity, Head(events).data),
         Tail(events))

\* One run of update_camera_3d_system over the unread events, and the
\* queued commands applied.
UpdateCamera(events) ==
  /\ \E o \in {update_camera_3d(world, <<>>, events)} :
       world' = flush(o.world, o.commands)
  /\ last' = [NoCall EXCEPT !.op = "update_camera_3d", !.value = events, !.before = world]
  /\ UNCHANGED pipeline

\* A camera entity as spawned, with no effect on it, and entities that are
\* no cameras.
InitCamera ==
  /\ world = [e \in SceneEntities |->
                IF e = "e1"
                THEN With(With(NoComponents, "Camera", [is_active |-> FALSE, order |-> 0]),
                          "IdentityData", Camera3D(FALSE, FALSE, FALSE, FALSE, FALSE))
                ELSE NoComponents]
  /\ last = NoCall
  /\ InitPipeline

NextCamera == \E events \in CameraBatches : UpdateCamera(events)

SpecCamera == InitCamera /\ [][NextCamera]_vars

\* ------------------------------------------------------------------ duplicate
\* duplicate_all_selection_system of selection/duplicate.rs.  In the scenes
\* of this specification the world is the sequence of its entities'
\* components in the order the entities were spawned, and an entity is its
\* place in it; ChildOf holds the parent, and Children of an entity are the
\* entities whose ChildOf names it, in that order.
ParentOf(w, entity) == IF Carries(w[entity], "ChildOf") THEN w[entity]["ChildOf"] ELSE 0

ChildrenOf(w, entity) ==
  LET Test(child) == ParentOf(w, child) = entity
  IN SelectSeq([i \in 1..Len(w) |-> i], Test)

\* The kinds of entity of the scenes, and the component that makes the kind.
Kinds == {"plain", "GizmoChildren", "IconProxy", "GIZMO", "PICKING"}
KindComponent(kind) ==
  CASE kind = "plain" -> {}
    [] kind \in {"GIZMO", "PICKING"} -> {"EditorIgnore"}
    [] OTHER -> {kind}

SceneEntity(entity, parent, kind, selected) ==
  [n \in {"IdentityData"} \cup KindComponent(kind)
         \cup (IF parent # 0 THEN {"ChildOf"} ELSE {})
         \cup (IF selected THEN {"Selected"} ELSE {}) |->
     CASE n = "IdentityData" -> [uuid |-> entity]
       [] n = "ChildOf" -> parent
       [] n = "EditorIgnore" -> kind
       [] OTHER -> Marker]

\* The scenes: three entities, the second a root or a child of the first,
\* the third a root or a child of either and of any kind, any of them
\* selected.
Scenes ==
  {<<SceneEntity(1, 0, "plain", sel[1]),
     SceneEntity(2, p[2], "plain", sel[2]),
     SceneEntity(3, p[3], kind, sel[3])>> :
     <<p, kind, sel>> \in {q \in [2..3 -> 0..2] : q[2] < 2} \X Kinds \X [1..3 -> BOOLEAN]}

\* The filter collect_entity_info puts on the children: no GizmoChildren,
\* no IconProxy, no EditorIgnore that contains GIZMO.
Duplicable(w, child) ==
  /\ ~Carries(w[child], "GizmoChildren")
  /\ ~Carries(w[child], "IconProxy")
  /\ ~(Carries(w[child], "EditorIgnore") /\ w[child]["EditorIgnore"] = "GIZMO")

collect_entity_info(w, entity) ==
  LET Test(child) == Duplicable(w, child)
  IN [children |-> SelectSeq(ChildrenOf(w, entity), Test)]

\* create_new_entity, and of copy_components_safe the copy of IdentityData
\* with its new uuid: the components of the new entity.
create_new_entity(w, source, new_parent) ==
  [n \in {"HasRuntimeData"}
         \cup (IF new_parent # 0 THEN {"ChildOf"} ELSE {})
         \cup (IF Carries(w[source], "IdentityData") THEN {"IdentityData"} ELSE {}) |->
     CASE n = "ChildOf" -> new_parent
       [] n = "IdentityData" -> [uuid |-> Len(w) + 1]
       [] OTHER -> Marker]

\* duplicate_entity_recursive: the new entity is spawned under new_parent,
\* then every child collected before is duplicated under the new entity.
\* copies lists the calls: the entity duplicated, the new entity, its parent.
RECURSIVE duplicate_entity_recursive(_, _, _, _), duplicate_children(_, _, _, _),
          duplicate_rest(_, _, _)
duplicate_entity_recursive(w, copies, entity_to_duplicate, new_parent) ==
  duplicate_children(
    Append(w, create_new_entity(w, entity_to_duplicate, new_parent)),
    Append(copies, [source |-> entity_to_duplicate, new_entity |-> Len(w) + 1,
                    new_parent |-> new_parent]),
    collect_entity_info(w, entity_to_duplicate).children,
    Len(w) + 1)
duplicate_children(w, copies, children, new_parent) ==
  IF children = <<>> THEN [world |-> w, copies |-> copies]
  ELSE duplicate_rest(duplicate_entity_recursive(w, copies, Head(children), new_parent),
                      Tail(children), new_parent)
duplicate_rest(o, children, new_parent) ==
  duplicate_children(o.world, o.copies, children, new_parent)

\* The closure duplicate_all_selection_system queues: every entity that was
\* selected is duplicated under its own parent.
RECURSIVE duplicate_all(_, _, _), duplicate_next(_, _)
duplicate_all(w, copies, entities_to_duplicate) ==
  IF entities_to_duplicate = <<>> THEN [world |-> w, copies |-> copies]
  ELSE duplicate_next(
         duplicate_entity_recursive(w, copies, Head(entities_to_duplicate),
                                    ParentOf(w, Head(entities_to_duplicate))),
         Tail(entities_to_duplicate))
duplicate_next(o, entities_to_duplicate) ==
  duplicate_all(o.world, o.copies, entities_to_duplicate)

\* One RequestDuplicateAllSelectionEvent is handled and the queued closure
\* run; the query visits the selected entities in some order.
DuplicateAllSelection(entities_to_duplicate) ==
  /\ last.op = "none"
  /\ \E o \in {duplicate_all(world, <<>>, entities_to_duplicate)} :
       /\ world' = o.world
       /\ last' = [NoCall EXCEPT !.op = "duplicate_all", !.value = entities_to_duplicate,
                                 !.before = world, !.out = o.copies]
  /\ UNCHANGED pipeline

InitScene ==
  /\ world \in Scenes
  /\ last = NoCall
  /\ InitPipeline

NextDuplicate ==
  \E entities_to_duplicate \in
       Orders({e \in 1..Len(world) : Carries(world[e], "Selected")}) :
    DuplicateAllSelection(entities_to_duplicate)

SpecDuplicate == InitScene /\ [][NextDuplicate]_vars

\* ------------------------------------------------------------------ claims
\* The example of the specification: Health{current: 50.0, max: 100.0}.
ExampleHealth == [current |-> 50, max |-> 100]
BareHealthText == <<"(", "current", ":", "50.0", ",", "max", ":", "100.0", ")">>
WrappedHealthText ==
  <<"{", Q, "Health", Q, ":", "(", "current", ":", "50.0", ",", "max", ":", "100.0", ")", "}">>

Untagged(name) ==
  name \in Registered /\ ~TypeRegistry[name].bridge /\ ~TypeRegistry[name].exposed

\* The component of the given type is as it was before the call.
SameComponent(name) ==
  /\ Carries(world[last.entity], name) <=> Carries(last.before, name)
  /\ Carries(last.before, name) => world[last.entity][name] = last.before[name]

LoadedSaved == last.op = "load" /\ last.name = "saved"
LoadedFresh == last.op = "load" /\ last.before = NoComponents

\* C1 (as claimed): the map gathered from an entity, loaded onto a fresh
\* entity, leaves it carrying the same components: gathering the fresh entity
\* gives the same map again.
C1_RoundTrip ==
  (LoadedSaved /\ LoadedFresh) =>
    serialize_entity_components(world[last.entity]) = last.input

C3_BareTextRestores ==
  (LoadedFresh /\ DOMAIN last.input = {"Health"} /\ last.input["Health"] = BareHealthText) =>
    /\ last.res["Health"].status = "Ok"
    /\ world[last.entity] = ("Health" :> ExampleHealth)

\* C3 (amended): the text restores when it is the record keyed by the type
\* name, {"Health":(current:50.0,max:100.0)}; the bare text fails in
\* extraction and leaves the entity as it was.
C3_WrappedTextRestores ==
  (last.op = "load" /\ DOMAIN last.input = {"Health"}) =>
    /\ (LoadedFresh /\ last.input["Health"] = WrappedHealthText) =>
         /\ last.res["Health"].status = "Ok"
         /\ world[last.entity] = ("Health" :> ExampleHealth)
    /\ last.input["Health"] = BareHealthText =>
         /\ last.res["Health"].status = "ExtractFailed"
         /\ world[last.entity] = last.before

C3_Witness ==
  /\ LoadedFresh
  /\ DOMAIN last.input = {"Health"}
  /\ last.input["Health"] = WrappedHealthText
  /\ last.res["Health"].status = "Ok"

GatheredExample ==
  /\ last.op = "gather"
  /\ Carries(last.before, "Health")
  /\ last.before["Health"] = ExampleHealth

\* C4 (as claimed): the text gathered for Health{50.0, 100.0} is the bare
\* field text (current:50.0,max:100.0).
C4_GatherBareText == GatheredExample => last.out["Health"] = BareHealthText

\* C4 (amended): the text gathered for Health{50.0, 100.0} is the record
\* {"Health":(current:50.0,max:100.0)}, and every gathered text is such a
\* record: {"<type name>": ... }.
C4_GatherWrappedText ==
  last.op = "gather" =>
    /\ GatheredExample => last.out["Health"] = WrappedHealthText
    /\ \A n \in DOMAIN last.out :
         /\ Len(last.out[n]) > 5
         /\ Take(last.out[n], 5) = <<"{", Q, n, Q, ":">>
         /\ last.out[n][Len(last.out[n])] = "}"

C4_Witness == GatheredExample /\ "Health" \in DOMAIN last.out

\* The entries of the loaded map that restore when they are restored alone.
RestoresAlone(n) == process_single_component(last.before, n, last.input[n])

C7_ReadPathsFiltered ==
  /\ last.op = "gather" =>
       DOMAIN last.out = {n \in DOMAIN last.before : ~Untagged(n)}
  /\ (last.op = "list" /\ last.flag) =>
       DOMAIN last.listed = {n \in DOMAIN last.before : ~Untagged(n)}
  /\ (last.op = "list" /\ ~last.flag) => DOMAIN last.listed = DOMAIN last.before

C7_Witness ==
  /\ last.op = "gather"
  /\ Carries(last.before, "Hidden")
  /\ Carries(last.before, "Health")
  /\ DOMAIN last.out # {}

\* C8: should_skip_component is true exactly of the registrations that carry
\* neither the bridge tag nor the exposed tag.
C8_SkipIsNotEligible ==
  last.op = "should_skip" =>
    (last.flag <=> ~(TypeRegistry[last.name].bridge \/ TypeRegistry[last.name].exposed))

C8_Witness ==
  /\ last.op = "should_skip"
  /\ TypeRegistry[last.name].exposed
  /\ ~TypeRegistry[last.name].bridge
  /\ ~last.flag

\* C9: restoring under a type name without a registration fails with the
\* unknown-type error after the lookup alone, whatever the text, and leaves
\* the entity's components as they were.
C9_UnknownTypeFirst ==
  last.op = "load" =>
    \A n \in DOMAIN last.input :
      n \notin Registered =>
        /\ last.res[n].status = "NoRegistration"
        /\ last.res[n].stages = <<"resolve">>
        /\ ~Carries(world[last.entity], n)
        /\ DOMAIN last.input = {n} => world[last.entity] = last.before

C9_Witness ==
  /\ last.op = "load"
  /\ DOMAIN last.input = {"Ghost"}
  /\ last.input["Ghost"] = BareHealthText
  /\ last.before # NoComponents
  /\ last.res["Ghost"].status = "NoRegistration"

InStages(n, stage) == \E i \in 1..Len(last.res[n].stages) : last.res[n].stages[i] = stage

\* C10: for a registered type the direct extraction runs first and the
\* structured-value fallback only when the direct one yields nothing; when
\* neither yields a text the result is the extraction error, nothing is
\* deserialized and the component is as it was.
C10_ExtractionOrder ==
  last.op = "load" =>
    \A n \in DOMAIN last.input \cap Registered :
      LET direct == try_extract_ron_component(n, last.input[n])
          fallback == FallbackExtract(n, last.input[n]) IN
      /\ Take(last.res[n].stages, 2) = <<"resolve", "direct">>
      /\ InStages(n, "fallback") <=> ~direct.some
      /\ InStages(n, "fallback") => last.res[n].stages[3] = "fallback"
      /\ last.res[n].status = "ExtractFailed" <=> (~direct.some /\ ~fallback.some)
      /\ last.res[n].status = "ExtractFailed" =>
           /\ last.res[n].stages = <<"resolve", "direct", "fallback">>
           /\ last.res[n].path = "none"
           /\ SameComponent(n)

C10_Witness ==
  /\ last.op = "load"
  /\ DOMAIN last.input = {"Health"}
  /\ Carries(last.before, "Health")
  /\ Find(last.input["Health"], SearchPattern("Health")) # 0
  /\ last.res["Health"].status = "ExtractFailed"

\* The text extract_component_data hands on for the entry n of the load.
CleanRon(n) == ExtractMemo[n][last.input[n]]

\* The entries of the load that reached deserialization.
Deserialized ==
  {n \in DOMAIN last.input \cap Registered : CleanRon(n).some}

\* The first position of a stage among the stages of the entry n, 0 if none.
StageIndex(n, stage) ==
  IF InStages(n, stage)
  THEN CHOOSE i \in 1..Len(last.res[n].stages) :
         /\ last.res[n].stages[i] = stage
         /\ \A j \in 1..(i - 1) : last.res[n].stages[j] # stage
  ELSE 0

\* How many times the entry n was installed.
Installs(n) ==
  Cardinality({i \in 1..Len(last.res[n].stages) : last.res[n].stages[i] \in {"insert", "apply"}})

\* C11: ReflectDeserialize runs first when the registration has it; the
\* typed deserializer runs only when it is absent or its attempt failed,
\* and reads the extracted text from its start; when the typed attempt
\* fails the result is the deserialization error and the component is as it
\* was; a component is installed at most once, and once when the result is Ok.
C11_StrategyOrder ==
  last.op = "load" =>
    \A n \in Deserialized :
      LET reg == TypeRegistry[n]
          direct == DeserializeMemo[n][CleanRon(n).v][TRUE]
          typed == TypedReflectDeserializer(n, CleanRon(n).v, reg) IN
      /\ InStages(n, "reflect_deserialize") <=> reg.deserialize
      /\ InStages(n, "typed_deserialize") <=>
           (~reg.deserialize \/ ~direct.ok \/ ~reg.component)
      /\ (InStages(n, "reflect_deserialize") /\ InStages(n, "typed_deserialize")) =>
           StageIndex(n, "reflect_deserialize") < StageIndex(n, "typed_deserialize")
      /\ (InStages(n, "typed_deserialize") /\ ~typed.ok) =>
           (last.res[n].status = "DeserializeFailed" /\ SameComponent(n))
      /\ (InStages(n, "typed_deserialize") /\ typed.ok /\ reg.component) =>
           last.res[n].status \in {"Ok", "Panic"}
      /\ Installs(n) <= 1
      /\ last.res[n].status = "Ok" => Installs(n) = 1

C11_Witness ==
  /\ last.op = "load"
  /\ DOMAIN last.input = {"Health"}
  /\ last.res["Health"].stages =
       <<"resolve", "direct", "fallback", "reflect_deserialize", "typed_deserialize">>
  /\ last.res["Health"].status = "DeserializeFailed"
  /\ Carries(world[last.entity], "Health")

\* C12 (as claimed): a record that holds the text of a value as a quoted
\* string and the record that holds the same value as a map, sequence or
\* unit restore alike: the same result and the same components afterwards.
C12_FallbackEquivalence ==
  (last.op = "load" /\ last.name = "written") =>
    \A n \in DOMAIN last.input : \A v \in SampleValues(n) :
      last.input[n] = Text(n, v, "quoted") =>
        LET structured == process_single_component(last.before, n, Text(n, v, "wrapped")) IN
        /\ last.res[n].status = structured.status
        /\ world[last.entity] = structured.comps

\* C13 (as claimed): a record with the entry `"Marker":Marker`, alone or
\* with further entries after it, restores the unit value: the text recovered
\* is the one token `Marker`, the result is Ok and the entity carries the
\* Marker unit value.
C13_UnitRecovered ==
  (last.op = "load" /\ last.name = "written") =>
    \A n \in DOMAIN last.input :
      (\E form \in UnitForms \cap Forms(n) : last.input[n] = Text(n, <<>>, form)) =>
        /\ CleanRon(n).some
        /\ CleanRon(n).v = <<n>>
        /\ last.res[n].status = "Ok"
        /\ Carries(world[last.entity], n)

\* The component text of a value with its tuples and lists written
\* `(v0, v1)`.
WrittenParens(n, v) == SeqValue(TypeRegistry[n].shape, v, "(", ")")

\* A deserializer's result without the text left over.
Read(r) == IF r.ok THEN Some(r.v) ELSE None

\* C14: a record whose component text writes a tuple or a list `[v0, v1]`,
\* as a field or as the whole value, is extracted on the fallback path, and
\* the text extracted deserializes as the text that writes it `(v0, v1)`
\* does; for a whole value the text extracted is `(v0,v1)`.
C14_SequenceAsTuple ==
  (last.op = "load" /\ last.name = "written") =>
    \A n \in DOMAIN last.input \cap SeqNames : \A v \in SampleValues(n) :
      last.input[n] = Text(n, v, "brackets") =>
        /\ CleanRon(n).some
        /\ CleanRon(n).tried = <<"direct", "fallback">>
        /\ Read(DeValue(TypeRegistry[n].shape, CleanRon(n).v, FALSE))
             = Read(DeValue(TypeRegistry[n].shape, WrittenParens(n, v), FALSE))
        /\ TypeRegistry[n].shape.kind = "tuple" =>
             CleanRon(n).v = SerValue(TypeRegistry[n].shape, v)

C14_Witness ==
  /\ last.op = "load"
  /\ \E v \in SampleValues("Span") : last.input = ("Span" :> Text("Span", v, "brackets"))
                                     /\ world[last.entity]["Span"] = v
  /\ last.res["Span"].status = "Ok"
  /\ ~Carries(last.before, "Span")

\* C15 (as claimed): no call on the editor panics, whatever the entity, the
\* type name, the text, the reflected value and the type data registered.
C15_NoPanic == ~last.panicked

\* C16 (as claimed): cloning a ReflectedComponent never panics, and
\* get_reflected_components leaves out a component whose data cannot be
\* cloned and lists the others.
C16_CloneRecoverable ==
  /\ last.op = "clone" => ~last.panicked
  /\ last.op = "list" =>
       /\ DOMAIN last.listed \cap NotClonable = {}
       /\ last.listed = get_reflected_components(
                           [n \in DOMAIN last.before \ NotClonable |-> last.before[n]],
                           last.flag)

\* A component the gather has an entry for: its type is registered, bears a
\* tag, has ReflectComponent and is written by the serializer.
Kept(n) ==
  IF n \notin Registered THEN FALSE
  ELSE /\ ~should_skip_component(TypeRegistry[n])
       /\ TypeRegistry[n].component
       /\ n \notin NotSerializable

\* C17: serialize_entity_components returns one entry, under the type path,
\* for each component of the entity that is registered, tagged, has
\* ReflectComponent and serializes; any other component has no entry, and
\* with or without it the entries of the others are the same; the entity is
\* left as it was.
C17_GatherLocal ==
  last.op = "gather" =>
    /\ world[last.entity] = last.before
    /\ \A n \in DOMAIN last.before :
         /\ Kept(n) =>
              /\ n \in DOMAIN last.out
              /\ last.out[n] = ReflectSerializer(n, TypeRegistry[n].shape, last.before[n])
              /\ Without(last.out, n) = serialize_entity_components(Without(last.before, n))
         /\ ~Kept(n) =>
              /\ n \notin DOMAIN last.out
              /\ last.out = serialize_entity_components(Without(last.before, n))

C17_Witness ==
  /\ last.op = "gather"
  /\ {"Handle", "Raw", "Ghost", "Hidden", "Health", "Tag"} \subseteq DOMAIN last.before
  /\ DOMAIN last.out = DOMAIN last.before \ {"Handle", "Raw", "Ghost", "Hidden"}

\* The result of the last call for the one name it was given.
Result == last.res[last.name]

\* C18: add_component_by_name builds the component with the default
\* constructor when the type has one and only otherwise from the empty
\* blob; when the type has neither, or the blob does not build it, the
\* entity's components are as they were; for an unregistered name nothing
\* changes; the call returns in every case.
C18_AddConstructionOrder ==
  last.op = "add" =>
    /\ ~last.panicked
    /\ last.name \notin Registered =>
         (Result.status = "NoRegistration" /\ world[last.entity] = last.before)
    /\ (last.name \in Registered /\ TypeRegistry[last.name].component) =>
         LET registration == TypeRegistry[last.name] IN
         /\ registration.default =>
              /\ Result.status = "Ok"
              /\ Head(Result.stages) = "default"
              /\ Carries(world[last.entity], last.name)
              /\ ~Carries(last.before, last.name) =>
                   world[last.entity][last.name] = registration.default_value
         /\ (~registration.default /\ registration.from_reflect) =>
              /\ Head(Result.stages) = "from_reflect"
              /\ IF registration.shape.fields = <<>>
                 THEN Result.status = "Ok" /\ Carries(world[last.entity], last.name)
                 ELSE Result.status = "ConstructionFailed" /\ world[last.entity] = last.before
         /\ (~registration.default /\ ~registration.from_reflect) =>
              (Result.status = "ConstructionFailed" /\ world[last.entity] = last.before)
    /\ DOMAIN world[last.entity] \subseteq DOMAIN last.before \cup {last.name}
    /\ \A n \in DOMAIN last.before \ {last.name} :
         n \in DOMAIN world[last.entity] /\ world[last.entity][n] = last.before[n]

C18_Witness ==
  /\ last.op = "add"
  /\ last.name = "Health"
  /\ TypeRegistry["Health"].default /\ TypeRegistry["Health"].from_reflect
  /\ ~Carries(last.before, "Health")
  /\ Result.stages = <<"default", "insert">>
  /\ world[last.entity]["Health"] = TypeRegistry["Health"].default_value

\* C19: remove_component_by_name removes the component of the named type
\* when the type is registered and has ReflectComponent, and changes
\* nothing otherwise; the entity's other components and the other entities
\* stay as they were, and the call returns.
C19_RemoveByName ==
  [][last'.op = "remove" =>
       /\ ~last'.panicked
       /\ world'[last'.entity] =
            IF last'.name \in Registered /\ TypeRegistry[last'.name].component
            THEN Without(world[last'.entity], last'.name)
            ELSE world[last'.entity]
       /\ \A f \in Entities \ {last'.entity} : world'[f] = world[f]]_vars

C19_Witness ==
  /\ last.op = "remove"
  /\ last.name = "Health"
  /\ Carries(last.before, "Health")
  /\ ~Carries(world[last.entity], "Health")
  /\ {"Raw", "Tag"} \subseteq DOMAIN world[last.entity]
  /\ \E f \in Entities \ {last.entity} : Carries(world[f], "Health")

\* C20 (as claimed): whatever the iteration order of the map's entries,
\* load_components_from_scene_data leaves the entity with the same
\* components and counts the same successes and failures.
C20_OrderIndependent ==
  last.op = "load" =>
    \A order \in Orders(DOMAIN last.input) :
      LET other == load_components_from_scene_data(last.before, order, last.input) IN
      /\ other.comps = world[last.entity]
      /\ other.success_count = last.success_count
      /\ other.error_count = last.error_count

\* C21: two ReflectedComponents compare equal exactly when their type names
\* are the same and reflect_partial_eq says their contents are equal; with
\* different type names, or contents it cannot compare, the answer is
\* false, and the comparison always returns.
C21_Equality ==
  last.op = "eq" =>
    LET self == last.value[1]
        other == last.value[2] IN
    /\ ~last.panicked
    /\ last.flag \in BOOLEAN
    /\ last.flag <=>
         /\ self.type_name = other.type_name
         /\ self.type_name \notin NotComparable
         /\ self.reflected_data = other.reflected_data
    /\ self.type_name # other.type_name => ~last.flag
    /\ self.type_name \in NotComparable => ~last.flag

C21_Witness ==
  /\ last.op = "eq"
  /\ last.value[1].type_name = "Health"
  /\ last.value[2].type_name = "Health"
  /\ last.value[1].reflected_data = last.value[2].reflected_data
  /\ last.flag

\* The place of the first quote of a text that no backslash escapes, 0 when
\* it has none.
UnescapedQuote(ts) ==
  LET hits == {i \in 1..Len(ts) : ts[i] = Q /\ (i = 1 \/ ts[i - 1] # BS)}
  IN IF hits = {} THEN 0 ELSE CHOOSE i \in hits : \A j \in hits : i <= j

\* The quoted string right after the key `"<name>":`, up to its own closing
\* quote and with `\"` unescaped; nothing when no quoted string follows.
QuotedAfterKey(component_name, serialized_data) ==
  LET start == Find(serialized_data, SearchPattern(component_name)) IN
  IF start = 0 THEN None
  ELSE LET trimmed == TrimStart(DropFirst(serialized_data,
                                          start - 1 + Len(SearchPattern(component_name)))) IN
    IF trimmed = <<>> \/ Head(trimmed) # Q \/ UnescapedQuote(Tail(trimmed)) = 0 THEN None
    ELSE Some(Replace(Take(Tail(trimmed), UnescapedQuote(Tail(trimmed)) - 1),
                      <<BS, Q>>, <<Q>>))

\* C22 (as claimed): the direct extraction returns the quoted string that
\* follows the key, up to that string's own closing quote and unescaped,
\* with no text of a later entry in it, and nothing when the value after
\* the key is no quoted string.
C22_DirectExtraction ==
  last.op = "direct" => last.out = QuotedAfterKey(last.name, last.value)

\* A text with every wrapper `Float(x)` replaced by `x`: the token, its
\* opening parenthesis and the parenthesis that closes it are dropped, every
\* other lexeme is kept.  open holds, innermost first, whether each
\* parenthesis still open is a wrapper's.
RECURSIVE WithoutWrappers(_, _)
WithoutWrappers(ts, open) ==
  IF ts = <<>> THEN <<>>
  ELSE IF Len(ts) >= 2 /\ ts[1] = "Float" /\ ts[2] = "("
       THEN WithoutWrappers(DropFirst(ts, 2), <<TRUE>> \o open)
  ELSE IF Head(ts) = "(" THEN <<"(">> \o WithoutWrappers(Tail(ts), <<FALSE>> \o open)
  ELSE IF Head(ts) = ")" /\ open # <<>> /\ Head(open) THEN WithoutWrappers(Tail(ts), Tail(open))
  ELSE IF Head(ts) = ")"
       THEN <<")">> \o WithoutWrappers(Tail(ts), IF open = <<>> THEN open ELSE Tail(open))
  ELSE <<Head(ts)>> \o WithoutWrappers(Tail(ts), open)

\* C23 (as claimed): clean_ron_value drops the wrappers `Float(..)` of a
\* value text and nothing else of it, before the outer brackets are
\* rewritten and a map is rendered as a struct; a text without a wrapper
\* comes out of the stripping step as it went in.
C23_StripOnlyWrapper ==
  last.op = "clean" =>
    /\ StripFloat(last.value) = WithoutWrappers(last.value, <<>>)
    /\ last.out = MapOrText(FromStrValue(BracketsToParens(WithoutWrappers(last.value, <<>>))),
                            BracketsToParens(WithoutWrappers(last.value, <<>>)))

\* The value the blob of the last call holds under the name it was given.
Found == FromStrHashMap(last.value)
FoundValue == Found.v[MapIndex(Found.v, last.name)][2]

\* C24 (as claimed): for every value the blob holds under the type name,
\* of whatever shape, the fallback returns a text; a map is rendered with
\* one `key:value` pair for each of its entries.
C24_ReconstructionTotal ==
  (last.op = "reconstruct" /\ Found.ok /\ MapIndex(Found.v, last.name) # 0) =>
    /\ last.out.some
    /\ FoundValue.tag = "Map" => Len(MapFieldTexts(FoundValue.a)) = Len(FoundValue.a)

\* C25 (save pipeline ordering): every WorldState that was serialized, and
\* for which WorldSaveSuccessEvent was written, had components_ready true and
\* the component_data the collecting closure filled in; no WorldState is
\* serialized twice; and a pending WorldState is ready exactly when its
\* component_data is filled.
C25_SaveOrdering ==
  /\ \A i \in 1..Len(messages.success) :
       /\ messages.success[i].world_state.components_ready
       /\ messages.success[i].world_state.component_data = "Some"
  /\ \A i \in 1..Len(messages.success), j \in 1..Len(messages.success) :
       i # j => messages.success[i].world_state.request # messages.success[j].world_state.request
  /\ \A source \in DOMAIN pending_saves :
       pending_saves[source].components_ready
         <=> pending_saves[source].component_data = "Some"

\* Two saves of one source were written, and a third is pending, not yet
\* collected.
C25_Witness ==
  /\ Len(messages.success) = 2
  /\ messages.success[1].source = messages.success[2].source
  /\ \E source \in DOMAIN pending_saves : ~pending_saves[source].components_ready

\* C28 (save liveness): every RequestSaveEvent for a source is eventually
\* followed by a WorldSaveSuccessEvent for that source, written after the
\* request was sent, with no WorldState of that request left in
\* pending_saves.
Requested(request, source) ==
  \E i \in 1..Len(messages.request) :
    messages.request[i].request = request /\ messages.request[i].source = source
SavedAfter(request, source) ==
  /\ \E i \in 1..Len(messages.success) :
       messages.success[i].source = source /\ messages.success[i].at >= request
  /\ ~(source \in DOMAIN pending_saves /\ pending_saves[source].request = request)
C28_SaveLiveness ==
  \A request \in 1..MaxRequests, source \in Sources :
    Requested(request, source) ~> SavedAfter(request, source)

\* C26 (single active selection): after any sequence of EntityEvents, once
\* the observers and their commands have run, at most one entity carries
\* ActiveSelection; an entity that ActiveSelection was added to is then the
\* only one that carries it.
Active(w) == {e \in DOMAIN w : Carries(w[e], "ActiveSelection")}
Chosen(w) == {e \in DOMAIN w : Carries(w[e], "Selected")}
C26_SingleActive ==
  /\ Cardinality(Active(world)) <= 1
  /\ last.op = "trigger" =>
       \A e \in Active(world) \ Active(last.before) : Active(world) = {e}

\* ActiveSelection was added to an entity while another entity carried it,
\* and that other entity stays selected.
C26_Witness ==
  /\ last.op = "trigger"
  /\ \E e \in Active(world) : Active(last.before) \ {e} # {}
  /\ Cardinality(Chosen(world)) >= 2

\* C29 (selection always has an active entity): in every state the
\* EntityEvents reach, if some entity carries Selected then some entity
\* carries ActiveSelection.
C29_ActiveWhenSelected == Chosen(world) # {} => Active(world) # {}

\* C27 (bloom implies HDR): after update_camera_3d_system has handled an
\* update of a camera whose has_bloom is true, and the queued commands are
\* applied, the camera carries both Bloom and Hdr, whatever the other flags.
\* With two updates in one run the later one of a camera counts.
LastUpdate(events, entity) ==
  IF events[Len(events)].entity = entity THEN events[Len(events)].data
  ELSE IF Len(events) = 2 /\ events[1].entity = entity THEN events[1].data
  ELSE [has_bloom |-> FALSE]
C27_BloomImpliesHdr ==
  last.op = "update_camera_3d" =>
    \A e \in SceneEntities :
      (Carries(world[e], "Camera") /\ LastUpdate(last.value, e).has_bloom)
        => (Carries(world[e], "Bloom") /\ Carries(world[e], "Hdr"))

\* C30 (duplicate-selection copies each entity once): for one
\* RequestDuplicateAllSelectionEvent no entity is duplicated more than once;
\* the number of new entities is the number of distinct entities in the
\* union of the selected entities' subtrees, gizmo, icon-proxy and
\* gizmo-ignored children excluded; and every copy is parented to its
\* original's parent or to the copy of it.
RECURSIVE Subtree(_, _)
Subtree(w, entity) ==
  {entity} \cup UNION {Subtree(w, child) :
                         child \in {c \in 1..Len(w) : ParentOf(w, c) = entity
                                                       /\ Duplicable(w, c)}}
SelectedSubtrees(w) ==
  UNION {Subtree(w, e) : e \in {c \in 1..Len(w) : Carries(w[c], "Selected")}}
CopyOf(copies, entity) ==
  {copies[i].new_entity : i \in {j \in 1..Len(copies) : copies[j].source = entity}}
C30_DuplicateOnce ==
  last.op = "duplicate_all" =>
    /\ Len(world) - Len(last.before) = Cardinality(SelectedSubtrees(last.before))
    /\ \A i \in 1..Len(last.out), j \in 1..Len(last.out) :
         i # j => last.out[i].source # last.out[j].source
    /\ \A i \in 1..Len(last.out) :
         \/ ParentOf(world, last.out[i].new_entity) = ParentOf(last.before, last.out[i].source)
         \/ ParentOf(world, last.out[i].new_entity)
              \in CopyOf(last.out, ParentOf(last.before, last.out[i].source))

=============================================================================
